---- MODULE Spec2Model ----
(***************************************************************************)
(* Model of the mlxmate codebase index: CodebaseAnalyzer                   *)
(* (src/core/codebase.py) and SemanticSearch (src/utils/search.py).        *)
(*                                                                         *)
(* Text is modelled at character level: a Python str is a TLA+ string,     *)
(* s[i:j] is SubSeq, and every path, file content, symbol name and query   *)
(* is such a string.  The file system below the root is the variable       *)
(* tree, a function from relative paths ("src/a.py") to file contents.     *)
(***************************************************************************)
EXTENDS Integers, Sequences, FiniteSets, TLC

(***************************************************************************)
(* Python str primitives                                                   *)
(***************************************************************************)

\* s[i-1:i]: the character at position i (TLA+ positions are 1-based), "" past the end
Ch(s, i) == IF i \in 1..Len(s) THEN SubSeq(s, i, i) ELSE ""

\* s[a-1:b], clipped to the string as a Python slice is
Slice(s, a, b) ==
    IF a > Len(s) \/ b < a THEN ""
    ELSE SubSeq(s, a, IF b > Len(s) THEN Len(s) ELSE b)

\* the characters that occur in the model, in code-point order
Ascii == "\t\n !\"#$%&'()*+,-./0123456789:;<=>?@ABCDEFGHIJKLMNOPQRSTUVWXYZ[]^_abcdefghijklmnopqrstuvwxyz{|}~"

RECURSIVE OrdFrom(_)
OrdFrom(i) == IF i > Len(Ascii) THEN <<>> ELSE (SubSeq(Ascii, i, i) :> i) @@ OrdFrom(i + 1)

\* the position of every character in the table
OrdTable == OrdFrom(1)

\* ord(c), up to a strictly monotone renumbering
Ord(c) == OrdTable[c]

UpperChars == "ABCDEFGHIJKLMNOPQRSTUVWXYZ"

LowerChars == "abcdefghijklmnopqrstuvwxyz"

WordChars == "ABCDEFGHIJKLMNOPQRSTUVWXYZabcdefghijklmnopqrstuvwxyz0123456789_"

\* least and greatest element of a set of positions, 0 for the empty set
MinOf(S) == IF S = {} THEN 0 ELSE CHOOSE i \in S : \A j \in S : i <= j

MaxOf(S) == IF S = {} THEN 0 ELSE CHOOSE i \in S : \A j \in S : i >= j

\* needle in hay
Contains(hay, needle) ==
    \E i \in 0..(Len(hay) - Len(needle)) : SubSeq(hay, i + 1, i + Len(needle)) = needle

\* s.startswith(p)
StartsWith(s, p) == Len(p) <= Len(s) /\ SubSeq(s, 1, Len(p)) = p

\* s.endswith(p)
EndsWith(s, p) == Len(p) <= Len(s) /\ SubSeq(s, Len(s) - Len(p) + 1, Len(s)) = p

RECURSIVE LowerFromUpper(_)
LowerFromUpper(i) ==
    IF i > Len(UpperChars) THEN <<>>
    ELSE (SubSeq(UpperChars, i, i) :> SubSeq(LowerChars, i, i)) @@ LowerFromUpper(i + 1)

\* the lowercase letter of every uppercase letter
LowerTable == LowerFromUpper(1)

\* c.lower() for one character
LowerCh(c) == IF c \in DOMAIN LowerTable THEN LowerTable[c] ELSE c

RECURSIVE LowerFrom(_, _, _)
\* s[a-1:b].lower(), half by half
LowerFrom(s, a, b) ==
    IF a > b THEN ""
    ELSE IF a = b THEN LowerCh(Ch(s, a))
    ELSE LowerFrom(s, a, (a + b) \div 2) \o LowerFrom(s, (a + b) \div 2 + 1, b)

\* s.lower()
Lower(s) == LowerFrom(s, 1, Len(s))

\* regex classes \s, \w and \d on one character
IsSpace(c) == c \in {" ", "\t", "\n"}

IsWord(c) == \E i \in 1..Len(WordChars) : Ch(WordChars, i) = c

IsDigit(c) == c \in {"0", "1", "2", "3", "4", "5", "6", "7", "8", "9"}

IsUpper(c) == \E i \in 1..26 : Ch(UpperChars, i) = c

IsLower(c) == \E i \in 1..26 : Ch(LowerChars, i) = c

\* s.find(sep, from): first position >= from where sep starts, 0 if none
Find(s, sep, from) ==
    MinOf({i \in from..(Len(s) - Len(sep) + 1) : SubSeq(s, i, i + Len(sep) - 1) = sep})

\* s.rfind(sep): last position where sep starts, 0 if none
RFind(s, sep) ==
    MaxOf({i \in 1..(Len(s) - Len(sep) + 1) : SubSeq(s, i, i + Len(sep) - 1) = sep})

RECURSIVE SplitFrom(_, _, _)
RECURSIVE SplitAt(_, _, _, _)
SplitAt(s, sep, from, p) ==
    IF p = 0 THEN <<SubSeq(s, from, Len(s))>>
    ELSE <<SubSeq(s, from, p - 1)>> \o SplitFrom(s, sep, p + Len(sep))

SplitFrom(s, sep, from) == SplitAt(s, sep, from, Find(s, sep, from))

\* s.split(sep)
Split(s, sep) == SplitFrom(s, sep, 1)

\* s.strip()
Strip(s) ==
    IF \A i \in 1..Len(s) : IsSpace(Ch(s, i)) THEN ""
    ELSE SubSeq(s, MinOf({i \in 1..Len(s) : ~IsSpace(Ch(s, i))}),
                   MaxOf({i \in 1..Len(s) : ~IsSpace(Ch(s, i))}))

\* s.count(c) for one character
Count(s, c) == Cardinality({i \in 1..Len(s) : Ch(s, i) = c})

RECURSIVE StrLessFrom(_, _, _)
\* a < b, given that a and b agree before position i
StrLessFrom(a, b, i) ==
    IF i > Len(a) THEN i <= Len(b)
    ELSE IF i > Len(b) THEN FALSE
    ELSE IF Ch(a, i) = Ch(b, i) THEN StrLessFrom(a, b, i + 1)
    ELSE Ord(Ch(a, i)) < Ord(Ch(b, i))

\* a < b for str: code-point lexicographic order
StrLess(a, b) == StrLessFrom(a, b, 1)

\* q with x put at position k + 1
InsertAt(q, x, k) == SubSeq(q, 1, k) \o <<x>> \o SubSeq(q, k + 1, Len(q))

\* the sorted list q with x put in its place
InsertSorted(q, x) == InsertAt(q, x, Cardinality({i \in 1..Len(q) : StrLess(q[i], x)}))

RECURSIVE SortedSeq(_)
RECURSIVE SortedFrom(_, _)
SortedFrom(S, x) == InsertSorted(SortedSeq(S \ {x}), x)

\* sorted(S) for a set of str
SortedSeq(S) == IF S = {} THEN <<>> ELSE SortedFrom(S, CHOOSE x \in S : TRUE)

\* reversed(q)
Reverse(q) == [i \in 1..Len(q) |-> q[Len(q) + 1 - i]]

\* the set of elements of a list
Range(q) == {q[i] : i \in 1..Len(q)}

RECURSIVE Flatten(_)
\* concatenation of a list of lists
Flatten(qq) == IF qq = <<>> THEN <<>> ELSE Head(qq) \o Flatten(Tail(qq))

\* how many elements of a list satisfy Test
CountIf(q, Test(_)) == Cardinality({i \in 1..Len(q) : Test(q[i])})

\* the last element of a non-empty list
Last(q) == q[Len(q)]

(***************************************************************************)
(* pathlib                                                                 *)
(***************************************************************************)

\* Path(p).name
PathName(p) == SubSeq(p, RFind(p, "/") + 1, Len(p))

\* position of the '.' that starts the suffix of a file name, 0 if none
SuffixPos(name) ==
    IF EndsWith(name, ".") THEN 0 ELSE MaxOf({i \in 2..Len(name) : Ch(name, i) = "."})

NameSuffix(name, pos) == IF pos = 0 THEN "" ELSE SubSeq(name, pos, Len(name))

NameStem(name, pos) == IF pos = 0 THEN name ELSE SubSeq(name, 1, pos - 1)

\* Path(p).suffix
PathSuffix(p) == NameSuffix(PathName(p), SuffixPos(PathName(p)))

\* Path(p).stem
PathStem(p) == NameStem(PathName(p), SuffixPos(PathName(p)))

(***************************************************************************)
(* Regular expressions of the JavaScript and Java symbol extractors        *)
(*                                                                         *)
(* A pattern is a sequence of pieces and the number of the piece that is   *)
(* the group the extractor reads.  A piece maps a position of the string   *)
(* to the set of positions a match of the piece can end before.            *)
(***************************************************************************)

\* end of the run of \s from position i on (the first position after it)
SpaceEnd(s, i) == MinOf({j \in i..(Len(s) + 1) : j > Len(s) \/ ~IsSpace(Ch(s, j))})

\* end of the run of \w from position i on (the first position after it)
WordEnd(s, i) == MinOf({j \in i..(Len(s) + 1) : j > Len(s) \/ ~IsWord(Ch(s, j))})

\* content[:match.start()].count('\n') + 1
LineOf(s, i) == Count(SubSeq(s, 1, i - 1), "\n") + 1

\* the characters of a string
CharsOf(s) == {Ch(s, i) : i \in 1..Len(s)}

\* the character classes \s and \w, ['"], and [^...]
SpaceClass == {" ", "\t", "\n"}

WordClass == CharsOf(WordChars)

Quotes == {"'", "\""}

Not(chars) == CharsOf(Ascii) \ chars

\* a literal text
Text(t) == [kind |-> "text", arg |-> t]

\* (?:t1|t2|...)
OneOf(texts) == [kind |-> "one_of", arg |-> texts]

\* one character of a class
One(class) == [kind |-> "one", arg |-> class]

\* class+
Plus(class) == [kind |-> "some", arg |-> class]

\* class*
Star(class) == [kind |-> "any", arg |-> class]

\* (?:pieces)?
Optional(pieces) == [kind |-> "optional", arg |-> pieces]

\* end of the run of characters of a class from position i on
RunEnd(s, i, class) == MinOf({j \in i..(Len(s) + 1) : j > Len(s) \/ Ch(s, j) \notin class})

RECURSIVE Ends(_, _, _)
\* the positions after a match of one piece that starts at position i
PieceEnds(s, i, piece) ==
    CASE piece.kind = "text" ->
            IF Slice(s, i, i + Len(piece.arg) - 1) = piece.arg THEN {i + Len(piece.arg)} ELSE {}
      [] piece.kind = "one_of" ->
            {i + Len(t) : t \in {u \in piece.arg : Slice(s, i, i + Len(u) - 1) = u}}
      [] piece.kind = "one" -> IF Ch(s, i) \in piece.arg THEN {i + 1} ELSE {}
      [] piece.kind = "some" -> (i + 1)..RunEnd(s, i, piece.arg)
      [] piece.kind = "any" -> i..RunEnd(s, i, piece.arg)
      [] piece.kind = "optional" -> {i} \cup Ends(s, {i}, piece.arg)

\* the positions after a match of the pieces that starts at a position of P
Ends(s, P, pieces) ==
    IF pieces = <<>> THEN P
    ELSE Ends(s, UNION {PieceEnds(s, p, Head(pieces)) : p \in P}, Tail(pieces))

\* lines 203-207
import_patterns ==
    <<[pieces |-> <<Text("import"), Plus(SpaceClass), Plus(WordClass), Plus(SpaceClass),
                    Text("from"), Plus(SpaceClass), One(Quotes), Plus(Not(Quotes)), One(Quotes)>>,
       group |-> 8],
      [pieces |-> <<Text("import"), Star(SpaceClass), Text("{"), Plus(Not({"}"})), Text("}"),
                    Plus(SpaceClass), Text("from"), Plus(SpaceClass),
                    One(Quotes), Plus(Not(Quotes)), One(Quotes)>>,
       group |-> 10],
      [pieces |-> <<Text("const"), Plus(SpaceClass), Plus(WordClass), Star(SpaceClass), Text("="),
                    Star(SpaceClass), Text("require"), Star(SpaceClass), Text("("),
                    One(Quotes), Plus(Not(Quotes)), One(Quotes), Text(")")>>,
       group |-> 11]>>

\* lines 217-221
function_patterns ==
    <<[pieces |-> <<Text("function"), Plus(SpaceClass), Plus(WordClass), Star(SpaceClass), Text("(")>>,
       group |-> 3],
      [pieces |-> <<Text("const"), Plus(SpaceClass), Plus(WordClass), Star(SpaceClass), Text("="),
                    Star(SpaceClass), Text("("), Star(Not({")"})), Text(")"), Star(SpaceClass),
                    Text("=>")>>,
       group |-> 3],
      [pieces |-> <<Plus(WordClass), Star(SpaceClass), Text("("), Star(Not({")"})), Text(")"),
                    Star(SpaceClass), Text("{")>>,
       group |-> 1]>>

\* line 231
class_pattern == [pieces |-> <<Text("class"), Plus(SpaceClass), Plus(WordClass)>>, group |-> 3]

\* line 250
java_import_pattern ==
    [pieces |-> <<Text("import"), Plus(SpaceClass), Plus(Not({";"})), Text(";")>>, group |-> 3]

\* line 258
java_class_pattern ==
    [pieces |-> <<Optional(<<Text("public"), Plus(SpaceClass)>>), Text("class"), Plus(SpaceClass),
                  Plus(WordClass)>>,
     group |-> 4]

\* line 266
method_pattern ==
    [pieces |-> <<Optional(<<OneOf({"public", "private", "protected"})>>), Star(SpaceClass),
                  Optional(<<Text("static"), Plus(SpaceClass)>>),
                  Optional(<<Text("final"), Plus(SpaceClass)>>),
                  Optional(<<Text("<"), Plus(Not({">"})), Text(">"), Plus(SpaceClass)>>),
                  Plus(WordClass), Plus(SpaceClass), Plus(WordClass), Star(SpaceClass), Text("(")>>,
     group |-> 8]

\* the pieces before, and after, piece k
Before(pieces, k) == SubSeq(pieces, 1, k - 1)

After(pieces, k) == SubSeq(pieces, k + 1, Len(pieces))

\* re.match of a pattern at position i: the position after the match, 0 if
\* none.  Every quantifier of these patterns takes all it can and still
\* match, and the match that does is the longest.
PatternEnd(s, i, pat) == MaxOf(Ends(s, {i}, pat.pieces))

\* where the group of the match at position i starts
GroupStart(s, i, pat) ==
    MaxOf({q \in Ends(s, {i}, Before(pat.pieces, pat.group)) :
              Ends(s, {q}, SubSeq(pat.pieces, pat.group, Len(pat.pieces))) # {}})

\* where the group that starts at position q ends
GroupEnd(s, q, pat) ==
    MaxOf({e \in PieceEnds(s, q, pat.pieces[pat.group]) :
              Ends(s, {e}, After(pat.pieces, pat.group)) # {}})

\* the group the extractor reads from the match at position i
PatternGroup(s, i, pat) ==
    SubSeq(s, GroupStart(s, i, pat), GroupEnd(s, GroupStart(s, i, pat), pat) - 1)

\* the first position >= from where the pattern matches, 0 if none
PatternNext(s, from, pat) == MinOf({i \in from..Len(s) : Ends(s, {i}, pat.pieces) # {}})

RECURSIVE PatternIter(_, _, _, _)
RECURSIVE PatternIterAt(_, _, _, _)
\* the symbols of re.finditer from a match at position i on
PatternIterAt(s, i, pat, key) ==
    IF i = 0 THEN <<>>
    ELSE <<[k \in {key, "line"} |-> IF k = "line" THEN LineOf(s, i) ELSE PatternGroup(s, i, pat)]>>
            \o PatternIter(s, PatternEnd(s, i, pat), pat, key)

\* for match in re.finditer(pattern, content): symbols[...].append({key: group, 'line': ...})
PatternIter(s, from, pat, key) == PatternIterAt(s, PatternNext(s, from, pat), pat, key)

\* for pattern in patterns: for match in re.finditer(pattern, content): ...
PatternsIter(s, patterns, key) ==
    Flatten([n \in 1..Len(patterns) |-> PatternIter(s, 1, patterns[n], key)])

\* CodebaseAnalyzer._extract_js_symbols
extract_js_symbols(content) ==
    [functions |-> PatternsIter(content, function_patterns, "name"),
     classes   |-> PatternIter(content, 1, class_pattern, "name"),
     variables |-> <<>>,
     imports   |-> PatternsIter(content, import_patterns, "module")]

\* CodebaseAnalyzer._extract_java_symbols
extract_java_symbols(content) ==
    [functions |-> PatternIter(content, 1, method_pattern, "name"),
     classes   |-> PatternIter(content, 1, java_class_pattern, "name"),
     variables |-> <<>>,
     imports   |-> PatternIter(content, 1, java_import_pattern, "module")]

(***************************************************************************)
(* The file system below the root, and os.walk                             *)
(***************************************************************************)

\* the directory listing order of os.scandir: filesystem-defined, and the
\* same on every listing of an unchanged directory
ScanOrders == {"asc", "desc"}

Listing(names, order) == IF order = "asc" THEN SortedSeq(names) ELSE Reverse(SortedSeq(names))

\* path p without the directory prefix ("" is the root, else "d/")
Rest(p, prefix) == SubSeq(p, Len(prefix) + 1, Len(p))

\* the paths of t below the directory prefix
Below(t, prefix) == {p \in DOMAIN t : StartsWith(p, prefix) /\ Len(p) > Len(prefix)}

\* filenames and dirs of one os.walk step
FileNames(t, prefix) ==
    {Rest(p, prefix) : p \in {q \in Below(t, prefix) : ~Contains(Rest(q, prefix), "/")}}

DirNames(t, prefix) ==
    {Split(Rest(p, prefix), "/")[1] : p \in {q \in Below(t, prefix) : Contains(Rest(q, prefix), "/")}}

code_extensions ==
    {".py", ".js", ".ts", ".jsx", ".tsx", ".java", ".cpp", ".c", ".h",
     ".hpp", ".cs", ".php", ".rb", ".go", ".rs", ".swift", ".kt",
     ".scala", ".clj", ".hs", ".ml", ".fs", ".dart", ".r", ".m", ".mm"}

ignored_dirs ==
    {"node_modules", "__pycache__", ".git", "build", "dist", "target",
     "venv", "env", ".venv", ".env", "bin", "obj"}

\* KeepDir without the test for a leading '.'
KeepDirDotted(d) == d \notin ignored_dirs

\* dirs[:] = [d for d in dirs if not d.startswith('.') and d not in {...}]
KeepDir(d) == ~StartsWith(d, ".") /\ d \notin ignored_dirs

\* if Path(filename).suffix in code_extensions
IsCodeFile(filename) == PathSuffix(filename) \in code_extensions

\* files.append(Path(root) / filename), relative to root_path
Joined(prefix, names) == [i \in 1..Len(names) |-> prefix \o names[i]]

RECURSIVE WalkDirs(_, _, _, _)
RECURSIVE Walk(_, _, _)
\* one directory of os.walk (top-down): its selected files, then the kept
\* sub-directories in listing order
Walk(t, prefix, order) ==
    Joined(prefix, SelectSeq(Listing(FileNames(t, prefix), order), IsCodeFile))
        \o WalkDirs(t, prefix, SelectSeq(Listing(DirNames(t, prefix), order), KeepDir), order)

WalkDirs(t, prefix, dirs, order) ==
    IF dirs = <<>> THEN <<>>
    ELSE Walk(t, prefix \o Head(dirs) \o "/", order) \o WalkDirs(t, prefix, Tail(dirs), order)

\* CodebaseAnalyzer._get_code_files, as paths relative to root_path
get_code_files(t, order) == Walk(t, "", order)

(***************************************************************************)
(* Language Classifier and Symbol Extractor of CodebaseAnalyzer            *)
(***************************************************************************)

language_map ==
    [e \in {".py", ".js", ".ts", ".jsx", ".tsx", ".java", ".cpp", ".c", ".h", ".hpp",
            ".cs", ".php", ".rb", ".go", ".rs", ".swift", ".kt"} |->
        CASE e = ".py" -> "python"
          [] e \in {".js", ".jsx"} -> "javascript"
          [] e \in {".ts", ".tsx"} -> "typescript"
          [] e = ".java" -> "java"
          [] e \in {".cpp", ".hpp"} -> "cpp"
          [] e \in {".c", ".h"} -> "c"
          [] e = ".cs" -> "csharp"
          [] e = ".php" -> "php"
          [] e = ".rb" -> "ruby"
          [] e = ".go" -> "go"
          [] e = ".rs" -> "rust"
          [] e = ".swift" -> "swift"
          [] e = ".kt" -> "kotlin"]

\* language_map.get(ext, 'unknown')
LanguageOf(ext) == IF ext \in DOMAIN language_map THEN language_map[ext] ELSE "unknown"

detect_language(path) == LanguageOf(Lower(PathSuffix(path)))

EmptySymbols == [functions |-> <<>>, classes |-> <<>>, variables |-> <<>>, imports |-> <<>>]

\* the symbol kinds in the iteration order of the symbols dict
SymbolTypes == <<"functions", "classes", "variables", "imports">>

py_keywords ==
    {"def", "class", "import", "from", "if", "else", "for", "while", "and", "or",
     "not", "in", "is", "pass", "return", "as", "with", "try", "None", "True", "False"}

\* a Python identifier (ASCII)
IsIdent(s) ==
    /\ Len(s) > 0
    /\ \A i \in 1..Len(s) : IsWord(Ch(s, i))
    /\ ~IsDigit(Ch(s, 1))
    /\ s \notin py_keywords

\* a dotted module name
IsDotted(s) == \A part \in Range(Split(s, ".")) : IsIdent(part)

\* an identifier or a number: the expressions of the model's files
IsExpr(s) ==
    /\ Len(s) > 0
    /\ \A i \in 1..Len(s) : IsWord(Ch(s, i))
    /\ s \notin py_keywords
    /\ IsDigit(Ch(s, 1)) => \A i \in 1..Len(s) : IsDigit(Ch(s, i))

\* the body of a one-line compound statement
IsBody(s) == s = "pass" \/ IsExpr(s)

\* ast.parse on one unindented logical line: the statement it is, for the
\* one-line statement forms of the model's files; every other line is a
\* SyntaxError.  colon, eq, imp and sig are the positions of the first
\* ":", "=", " import " and "():" of the line (0 if absent).
PyStmtAt(line, colon, eq, imp, sig) ==
    CASE Strip(line) = "" -> [kind |-> "blank"]
      [] StartsWith(line, "#") -> [kind |-> "blank"]
      [] StartsWith(line, "def ") /\ sig > 5 /\ IsIdent(SubSeq(line, 5, sig - 1))
            /\ IsBody(SubSeq(line, sig + 3, Len(line))) ->
            [kind |-> "functions", name |-> SubSeq(line, 5, sig - 1)]
      [] StartsWith(line, "class ") /\ colon > 7 /\ IsIdent(SubSeq(line, 7, colon - 1))
            /\ IsBody(SubSeq(line, colon + 1, Len(line))) ->
            [kind |-> "classes", name |-> SubSeq(line, 7, colon - 1)]
      [] StartsWith(line, "if ") /\ colon > 4 /\ IsExpr(SubSeq(line, 4, colon - 1))
            /\ IsBody(SubSeq(line, colon + 1, Len(line))) ->
            [kind |-> "other"]
      [] StartsWith(line, "import ") /\ IsDotted(SubSeq(line, 8, Len(line))) ->
            [kind |-> "import", module |-> SubSeq(line, 8, Len(line))]
      [] StartsWith(line, "from ") /\ imp > 6 /\ IsDotted(SubSeq(line, 6, imp - 1))
            /\ IsIdent(SubSeq(line, imp + 8, Len(line))) ->
            [kind |-> "importfrom", module |-> SubSeq(line, 6, imp - 1)]
      [] eq > 1 /\ IsIdent(SubSeq(line, 1, eq - 1)) /\ IsExpr(SubSeq(line, eq + 1, Len(line))) ->
            [kind |-> "variables", name |-> SubSeq(line, 1, eq - 1)]
      [] IsBody(line) -> [kind |-> "other"]
      [] OTHER -> [kind |-> "error"]

PyStmt(line) ==
    PyStmtAt(line, Find(line, ":", 1), Find(line, "=", 1), Find(line, " import ", 1),
             Find(line, "():", 1))

\* the statements of the lines of a file
PyStmts(lines) == [i \in 1..Len(lines) |-> PyStmt(lines[i])]

\* the symbol ast.walk appends for statement st of line i
PySymbol(st, i) ==
    IF st.kind \in {"import", "importfrom"}
    THEN [module |-> st.module, line |-> i]
    ELSE [name |-> st.name, line |-> i]

RECURSIVE PyCollect(_, _, _)
\* the nodes of ast.walk(tree) of the given kinds, in walk order, as symbols
PyCollect(stmts, i, kinds) ==
    IF i > Len(stmts) THEN <<>>
    ELSE (IF stmts[i].kind \in kinds THEN <<PySymbol(stmts[i], i)>> ELSE <<>>)
            \o PyCollect(stmts, i + 1, kinds)

\* an extractor that reads line by line and skips the lines it cannot parse
PySymbolsLenient(stmts) ==
    [functions |-> PyCollect(stmts, 1, {"functions"}),
     classes   |-> PyCollect(stmts, 1, {"classes"}),
     variables |-> PyCollect(stmts, 1, {"variables"}),
     imports   |-> PyCollect(stmts, 1, {"import", "importfrom"})]

\* lines 147-189: the symbols when ast.parse succeeds, else the empty lists
PySymbols(stmts) ==
    IF \E i \in 1..Len(stmts) : stmts[i].kind = "error" THEN EmptySymbols
    ELSE [functions |-> PyCollect(stmts, 1, {"functions"}),
          classes   |-> PyCollect(stmts, 1, {"classes"}),
          variables |-> PyCollect(stmts, 1, {"variables"}),
          imports   |-> PyCollect(stmts, 1, {"import", "importfrom"})]

\* CodebaseAnalyzer._extract_python_symbols
extract_python_symbols(content) == PySymbols(PyStmts(Split(content, "\n")))

\* lines 129-134: the extractor of the language
LanguageSymbols(content, language) ==
    CASE language = "python" -> extract_python_symbols(content)
      [] language \in {"javascript", "typescript"} -> extract_js_symbols(content)
      [] language = "java" -> extract_java_symbols(content)
      [] OTHER -> EmptySymbols

\* CodebaseAnalyzer._extract_symbols
extract_symbols(content, path) == LanguageSymbols(content, detect_language(path))

\* the module names of a list of import symbols
Modules(imports) == [i \in 1..Len(imports) |-> imports[i].module]

\* CodebaseAnalyzer._extract_python_imports: alias.name of every Import and
\* node.module of every ImportFrom that has one
extract_python_imports(content) ==
    SelectSeq(Modules(extract_python_symbols(content).imports), LAMBDA m : m # "")

\* CodebaseAnalyzer._extract_imports; the files of the trees are Python files
\* and files of languages without an extractor
extract_imports(content, path) ==
    IF detect_language(path) = "python" THEN extract_python_imports(content) ELSE <<>>

extract_functions(content, path) == extract_symbols(content, path).functions

extract_classes(content, path) == extract_symbols(content, path).classes

\* line.split('#')[1].strip() of a line that contains '#'
HashComment(line) == Strip(Split(line, "#")[2])

RECURSIVE HashComments(_, _)
\* lines 344-348: the non-empty '#' comments of the lines from i on
HashComments(lines, i) ==
    IF i > Len(lines) THEN <<>>
    ELSE (IF Contains(lines[i], "#") /\ HashComment(lines[i]) # ""
          THEN <<HashComment(lines[i])>> ELSE <<>>) \o HashComments(lines, i + 1)

\* CodebaseAnalyzer._extract_comments; the files of the trees are Python files
\* and files of languages whose comments the method does not read
extract_comments(content, path) ==
    IF detect_language(path) = "python" THEN HashComments(Split(content, "\n"), 1)
    ELSE <<>>

(***************************************************************************)
(* Bounds and inputs                                                       *)
(***************************************************************************)

\* how many times the tree is changed
MaxEdits == 2

\* the paths at which files are created
Locs == {"a.py", "src/b.py", "src/build/x/c.py", "src/.cache/d.py", "Build/e.py", "n.txt"}

\* the contents files are given
Contents == {"import b\ndef foo():0", "def foo():0\n#c", "def ("}

\* the files and contents of the search index
SearchLocs == {"a.py", "src/b.py"}

SearchContents == {"import b\ndef foo():0", "def foo():0\nfoo=foo", "x=1"}

\* how many calls are made to the program
MaxCalls == 3

SearchTrees ==
    {[p \in {"a.py", "src/b.py"} |->
         IF p = "a.py" THEN "import b\ndef foo():0" ELSE "def foo():0\nfoo=foo"]}

\* the files, contents and trees that are queried: eleven files below
\* src/utils and one elsewhere; three files told apart by their symbols
UtilsFiles ==
    {"src/utils/a.py", "src/utils/b.py", "src/utils/c.py", "src/utils/d.py", "src/utils/e.py",
     "src/utils/f.py", "src/utils/g.py", "src/utils/h.py", "src/utils/i.py", "src/utils/j.py",
     "src/utils/k.py"}

QueryLocs == UtilsFiles \cup {"lib/m.py", "m.py", "b.py", "cbz.py"}

QueryContents == {"x=1", "def ab():0", "def a():0\n#a", "yxzx=1"}

\* the file that is written between queries, and the one that is deleted
QueryWrites == {<<"src/utils/k.py", "def ab():0">>}

QueryDeletes == {"src/utils/k.py"}

QueryTrees ==
    {[p \in UtilsFiles \cup {"lib/m.py"} |-> "x=1"],
     [p \in {"m.py", "b.py", "cbz.py"} |->
         CASE p = "m.py" -> "def ab():0"
           [] p = "b.py" -> "def a():0\n#a"
           [] p = "cbz.py" -> "yxzx=1"]}

\* the length of the long file of the context queries
LongLen == 2001

RECURSIVE Repeat(_, _)
\* s * n
Repeat(s, n) ==
    IF n = 0 THEN ""
    ELSE IF n % 2 = 1 THEN s \o Repeat(s, n - 1)
    ELSE Repeat(s \o s, n \div 2)

\* a comment line of LongLen characters
LongContent == "#" \o Repeat("a", LongLen - 1)

\* the tree the context queries are asked on: eleven files below src/utils
\* and the long file
ContextTrees ==
    {[p \in UtilsFiles \cup {"lib/big.py"} |-> IF p = "lib/big.py" THEN LongContent ELSE "x=1"]}

\* the paths analyze_file is asked for: one that a deletion and a refresh take
\* out of the Index, one that is never there
AnalyzePaths == {"src/utils/k.py", "src/none.py"}

ContextQueries == {"src/utils", "lib/", "aaa"}

\* every path and content of the model
\* what reading a file gives when open() fails or its bytes are not UTF-8
\* (no file that can be read has this content)
ReadError == "<UnicodeDecodeError>"

\* the content update_file is given and the query made between the handlers
LoopContents == {"x=1"}

LoopQueries == {"src/"}

\* the files, contents and trees of the builds: a Python file that does not
\* parse after two statements that do, a file that cannot be read, and a
\* file of a language without an extractor that holds decision keywords
BuildTrees ==
    {[p \in {"a.py", "bad.py", "m.rb"} |->
         IF p = "a.py" THEN "import b\ndef foo():0\ndef ("
         ELSE IF p = "bad.py" THEN ReadError
         ELSE "if a\nIF b\niF c\nfor d\nFor e"]}

BuildWrites ==
    {<<"m.rb", "elif or_ fork x.or.y and/while">>, <<"bad.py", "def foo():0\n#c">>, <<"a.py", ReadError>>}

BuildDeletes == {"bad.py"}

BuildPaths == {"a.py", "m.rb"}

\* what root_path is on the filesystem when it is walked
RootStates == {"directory", "missing", "unreadable"}

\* the tree below a root that is missing
NoTree == <<>>

AllLocs == Locs \cup SearchLocs \cup QueryLocs

AllContents == Contents \cup SearchContents \cup QueryContents

InitTrees ==
    {[p \in {"a.py", "src/b.py", "src/build/x/c.py"} |->
         IF p = "a.py" THEN "import b\ndef foo():0" ELSE "def foo():0\n#c"],
     [p \in {"src/.cache/d.py", "Build/e.py"} |-> "def foo():0\n#c"]}

(***************************************************************************)
(* CodebaseAnalyzer: the index                                             *)
(*                                                                         *)
(* file_index is a dict in insertion order: a sequence of FileRecords with *)
(* pairwise different paths.  symbol_index and dependency_graph are        *)
(* functions from names and paths.                                         *)
(***************************************************************************)

Keys(fi) == {fi[i].path : i \in 1..Len(fi)}

KeySeq(fi) == [i \in 1..Len(fi) |-> fi[i].path]

Get(fi, path) == fi[CHOOSE i \in 1..Len(fi) : fi[i].path = path]

\* d[key] = rec on a dict in insertion order
Put(fi, rec) ==
    IF rec.path \in Keys(fi)
    THEN [i \in 1..Len(fi) |-> IF fi[i].path = rec.path THEN rec ELSE fi[i]]
    ELSE Append(fi, rec)

\* the FileRecord built at codebase.py:75-87 (absolute_path and
\* last_modified are functions of the path and the unchanged file)
FileRecord(path, content) ==
    [path      |-> path,
     content   |-> content,
     size      |-> Len(content),
     language  |-> detect_language(path),
     symbols   |-> extract_symbols(content, path),
     imports   |-> extract_imports(content, path),
     functions |-> extract_functions(content, path),
     classes   |-> extract_classes(content, path),
     comments  |-> extract_comments(content, path)]

AllLocSeq == SortedSeq(AllLocs)

AllContentSeq == SortedSeq(AllContents)

RECURSIVE PathRecordsFrom(_, _)
\* FileRecord of a path for the contents from the j-th on
PathRecordsFrom(path, j) ==
    IF j > Len(AllContentSeq) THEN <<>>
    ELSE (<<path, AllContentSeq[j]>> :> FileRecord(path, AllContentSeq[j]))
             @@ PathRecordsFrom(path, j + 1)

RECURSIVE RecordsFrom(_)
\* FileRecord for the paths from the i-th on
RecordsFrom(i) ==
    IF i > Len(AllLocSeq) THEN <<>>
    ELSE PathRecordsFrom(AllLocSeq[i], 1) @@ RecordsFrom(i + 1)

\* FileRecord, evaluated once for every file the trees of the model can hold
FileRecords ==
    RecordsFrom(1) @@ (<<"lib/big.py", LongContent>> :> FileRecord("lib/big.py", LongContent))

\* self.symbol_index[symbol_name] = {...} for a symbol that has a name
MergeSymbol(si, path, type, symbol) ==
    IF "name" \in DOMAIN symbol
    THEN (symbol.name :> [file |-> path, type |-> type, line |-> symbol.line]) @@ si
    ELSE si

RECURSIVE MergeSymbolsFirstWins(_, _, _, _)
\* the loop over the symbols of one type that keeps the entry a name has
MergeSymbolsFirstWins(si, path, type, symbols) ==
    IF symbols = <<>> THEN si
    ELSE MergeSymbolsFirstWins(
             IF "name" \in DOMAIN Head(symbols)
             THEN si @@ (Head(symbols).name :> [file |-> path, type |-> type, line |-> Head(symbols).line])
             ELSE si,
             path, type, Tail(symbols))

RECURSIVE MergeSymbols(_, _, _, _)
\* codebase.py:92-99 for the symbols of one type: last write wins
MergeSymbols(si, path, type, symbols) ==
    IF symbols = <<>> THEN si
    ELSE MergeSymbols(MergeSymbol(si, path, type, Head(symbols)), path, type, Tail(symbols))

RECURSIVE MergeTypes(_, _, _, _)
\* codebase.py:91: the symbol types in the order of the symbols dict
MergeTypes(si, path, symbols, k) ==
    IF k > Len(SymbolTypes) THEN si
    ELSE MergeTypes(MergeSymbols(si, path, SymbolTypes[k], symbols[SymbolTypes[k]]),
                    path, symbols, k + 1)

\* _index_file once the FileRecord rec is built
index_record(st, rec) ==
    [st EXCEPT !.file_index = Put(@, rec),
               !.symbol_index = MergeTypes(@, rec.path, rec.symbols, 1)]

\* the FileRecord of a file, from the table where it holds it
RecordOf(path, content) ==
    IF <<path, content>> \in DOMAIN FileRecords THEN FileRecords[<<path, content>>]
    ELSE FileRecord(path, content)

\* _index_file with open(..., errors='ignore'): a file that cannot be decoded
\* is indexed with the empty text
index_file_ignoring_errors(st, path, content) ==
    IF content = ReadError THEN index_record(st, FileRecord(path, ""))
    ELSE index_record(st, RecordOf(path, content))

\* CodebaseAnalyzer._index_file on the analyzer state st: open() or read()
\* raises before the FileRecord is stored, the handler at lines 103-104
\* prints the error and the index is as it was
index_file(st, path, content) ==
    IF content = ReadError THEN st
    ELSE index_record(st, RecordOf(path, content))

\* CodebaseAnalyzer._is_import_match
is_import_match(import_name, file_path) ==
    EndsWith(import_name, PathStem(file_path)) \/ Contains(import_name, PathStem(file_path))

\* the files that the imports of file f match (codebase.py:368-372)
Imported(fi, f) ==
    {o \in Keys(fi) : \E k \in 1..Len(Get(fi, f).imports) :
                          is_import_match(Get(fi, f).imports[k], o)}

\* CodebaseAnalyzer._analyze_dependencies: the graph after adding to dg
analyze_dependencies(fi, dg) ==
    [f \in DOMAIN dg \cup {g \in Keys(fi) : Imported(fi, g) # {}} |->
        (IF f \in DOMAIN dg THEN dg[f] ELSE {}) \cup (IF f \in Keys(fi) THEN Imported(fi, f) ELSE {})]

\* all lines of all indexed files
AllLines(fi) == Flatten([i \in 1..Len(fi) |-> Split(fi[i].content, "\n")])

StartsWithSpace(line) == StartsWith(line, " ")

StartsWithTab(line) == StartsWith(line, "\t")

\* 'spaces' if space_count > tab_count else 'tabs'
IndentationOf(lines) ==
    IF CountIf(lines, StartsWithSpace) > CountIf(lines, StartsWithTab) THEN "spaces" ELSE "tabs"

\* CodebaseAnalyzer._detect_indentation_style
detect_indentation_style(fi) == IndentationOf(AllLines(fi))

Names(symbols) == [i \in 1..Len(symbols) |-> symbols[i].name]

\* the names of the functions of all indexed files
FunctionNames(fi) == Flatten([i \in 1..Len(fi) |-> Names(fi[i].functions)])

IsSnake(name) == Contains(name, "_")

IsCamel(name) ==
    name # "" /\ IsLower(Ch(name, 1)) /\ \E j \in 1..Len(name) : IsUpper(Ch(name, j))

NamingOf(function_names) ==
    IF function_names = <<>> THEN <<>>
    ELSE [k \in {"functions"} |->
            IF CountIf(function_names, IsSnake) > CountIf(function_names, IsCamel)
            THEN "snake_case" ELSE "camelCase"]

\* CodebaseAnalyzer._detect_naming_conventions
detect_naming_conventions(fi) == NamingOf(FunctionNames(fi))

\* sorted(q)[k] (0-based k) for a list of integers
SortedAt(q, k) ==
    CHOOSE v \in Range(q) :
        /\ Cardinality({i \in 1..Len(q) : q[i] < v}) <= k
        /\ Cardinality({i \in 1..Len(q) : q[i] <= v}) > k

default_line_length == 80

Lengths(lines) == [i \in 1..Len(lines) |-> Len(lines[i])]

MedianOf(line_lengths) ==
    IF line_lengths # <<>> THEN SortedAt(line_lengths, Len(line_lengths) \div 2)
    ELSE default_line_length

\* CodebaseAnalyzer._detect_line_length
detect_line_length(fi) == MedianOf(Lengths(AllLines(fi)))

\* CodebaseAnalyzer._detect_comment_style
detect_comment_style(fi) ==
    IF \E i \in 1..Len(fi) : fi[i].language = "python" THEN "hash" ELSE "slash"

\* CodebaseAnalyzer._detect_coding_standards
detect_coding_standards(fi) ==
    [indentation        |-> detect_indentation_style(fi),
     naming_conventions |-> detect_naming_conventions(fi),
     line_length        |-> detect_line_length(fi),
     comment_style      |-> detect_comment_style(fi)]

RECURSIVE IndexFiles(_, _, _)
\* the loop of _build_index over the files of _get_code_files
IndexFiles(st, t, files) ==
    IF files = <<>> THEN st
    ELSE IndexFiles(index_file(st, Head(files), t[Head(files)]), t, Tail(files))

\* codebase.py:40-41, after the loop
finish_build(st) ==
    [st EXCEPT !.dependency_graph = analyze_dependencies(st.file_index, @),
               !.coding_standards = detect_coding_standards(st.file_index)]

\* the error scandir(root_path) raises inside os.walk
ScandirError(root) ==
    IF root = "missing" THEN "FileNotFoundError"
    ELSE IF root = "unreadable" THEN "PermissionError"
    ELSE ""

\* os.walk(self.root_path) is called without onerror: the error of listing
\* the top directory is dropped and the walk yields nothing
Listed(root, t) == IF ScandirError(root) = "" THEN t ELSE NoTree

\* what CodebaseAnalyzer(root_path) raises: Path.resolve() is not strict and
\* the error of the walk never leaves os.walk
init_raises(root) == ""

\* CodebaseAnalyzer._build_index on the analyzer state st and the tree t
build_index(st, t, order) == finish_build(IndexFiles(st, t, get_code_files(t, order)))

\* the fields of CodebaseAnalyzer.__init__ before _build_index runs
NewAnalyzer ==
    [file_index |-> <<>>, symbol_index |-> <<>>, dependency_graph |-> <<>>,
     coding_standards |-> <<>>]

\* refresh_index without dependency_graph.clear()
ClearIndexKeepGraph(st) ==
    [st EXCEPT !.file_index = <<>>, !.symbol_index = <<>>]

\* refresh_index without symbol_index.clear()
ClearIndexKeepSymbols(st) ==
    [st EXCEPT !.file_index = <<>>, !.dependency_graph = <<>>]

\* the three clear() calls of refresh_index
ClearIndex(st) ==
    [st EXCEPT !.file_index = <<>>, !.symbol_index = <<>>, !.dependency_graph = <<>>]

\* refresh_index that detects the coding standards before it rebuilds
refresh_index_early_standards(st, t, order) ==
    [build_index(ClearIndex(st), t, order) EXCEPT
        !.coding_standards = detect_coding_standards(st.file_index)]

\* CodebaseAnalyzer.refresh_index
refresh_index_of(st, t, order) == build_index(ClearIndex(st), t, order)


RECURSIVE IndexSteps(_, _, _)
\* the analyzer after each pass of the loop of _build_index
IndexSteps(st, t, files) ==
    IF files = <<>> THEN <<>>
    ELSE <<index_file(st, Head(files), t[Head(files)])>>
             \o IndexSteps(index_file(st, Head(files), t[Head(files)]), t, Tail(files))

\* CodebaseAnalyzer.refresh_index, statement by statement: the analyzer after
\* each of the three clear() calls, after each file of the loop, after
\* _analyze_dependencies and after _detect_coding_standards
refresh_index_steps(st, t, order) ==
    <<[st EXCEPT !.file_index = <<>>],
      [st EXCEPT !.file_index = <<>>, !.symbol_index = <<>>],
      ClearIndex(st)>>
    \o IndexSteps(ClearIndex(st), t, get_code_files(t, order))
    \o <<[IndexFiles(ClearIndex(st), t, get_code_files(t, order)) EXCEPT
             !.dependency_graph = analyze_dependencies(
                 IndexFiles(ClearIndex(st), t, get_code_files(t, order)).file_index, @)],
         refresh_index_of(st, t, order)>>
(***************************************************************************)
(* SemanticSearch: regular-expression symbol extraction                    *)
(***************************************************************************)

\* what follows the name in each pattern: the position after the whole
\* match when the rest of the pattern matches at position b, else 0
\*   "none"   kw\s+(\w+)
\*   "paren"  kw\s+(\w+)\s*\(
\*   "import" kw\s+(\w+)\s+import
\*   "as"     kw\s+(\w+)\s+as\s+\w+
TailEnd(s, b, tail) ==
    CASE tail = "none" -> b
      [] tail = "paren" -> IF Ch(s, SpaceEnd(s, b)) = "(" THEN SpaceEnd(s, b) + 1 ELSE 0
      [] tail = "import" ->
            IF SpaceEnd(s, b) > b /\ Slice(s, SpaceEnd(s, b), SpaceEnd(s, b) + 5) = "import"
            THEN SpaceEnd(s, b) + 6 ELSE 0
      [] tail = "as" ->
            IF /\ SpaceEnd(s, b) > b
               /\ Slice(s, SpaceEnd(s, b), SpaceEnd(s, b) + 1) = "as"
               /\ SpaceEnd(s, SpaceEnd(s, b) + 2) > SpaceEnd(s, b) + 2
               /\ WordEnd(s, SpaceEnd(s, SpaceEnd(s, b) + 2)) > SpaceEnd(s, SpaceEnd(s, b) + 2)
            THEN WordEnd(s, SpaceEnd(s, SpaceEnd(s, b) + 2)) ELSE 0

\* re.match of kw\s+(\w+)<tail> at position i: the end of the match, 0 if none
MatchEnd(s, i, kw, tail) ==
    IF /\ Slice(s, i, i + Len(kw) - 1) = kw
       /\ SpaceEnd(s, i + Len(kw)) > i + Len(kw)
       /\ WordEnd(s, SpaceEnd(s, i + Len(kw))) > SpaceEnd(s, i + Len(kw))
    THEN TailEnd(s, WordEnd(s, SpaceEnd(s, i + Len(kw))), tail)
    ELSE 0

\* match.group(1) of a match at position i
MatchName(s, i, kw) ==
    SubSeq(s, SpaceEnd(s, i + Len(kw)), WordEnd(s, SpaceEnd(s, i + Len(kw))) - 1)

\* the first position >= from where the pattern matches, 0 if none
NextMatch(s, from, kw, tail) ==
    MinOf({i \in from..(Len(s) - Len(kw) + 1) : MatchEnd(s, i, kw, tail) > 0})

RECURSIVE FindIter(_, _, _, _, _)
RECURSIVE FindIterAt(_, _, _, _, _)
\* the symbols of re.finditer from a match at position i on
FindIterAt(s, i, kw, tail, key) ==
    IF i = 0 THEN <<>>
    ELSE <<[k \in {key, "line"} |-> IF k = "line" THEN LineOf(s, i) ELSE MatchName(s, i, kw)]>>
            \o FindIter(s, MatchEnd(s, i, kw, tail), kw, tail, key)

\* for match in re.finditer(pattern, content): symbols.append({key: group(1), 'line': ...})
FindIter(s, from, kw, tail, key) == FindIterAt(s, NextMatch(s, from, kw, tail), kw, tail, key)

\* SemanticSearch._extract_python_symbols
search_extract_python_symbols(content) ==
    [functions |-> FindIter(content, 1, "def", "paren", "name"),
     classes   |-> FindIter(content, 1, "class", "none", "name"),
     variables |-> <<>>,
     imports   |-> FindIter(content, 1, "import", "none", "module")
                      \o FindIter(content, 1, "from", "import", "module")
                      \o FindIter(content, 1, "import", "as", "module")]

\* SemanticSearch._extract_symbols; the files of the model are Python files
\* and files of languages without an extractor
search_extract_symbols(content, path) ==
    IF detect_language(path) = "python" THEN search_extract_python_symbols(content)
    ELSE EmptySymbols

\* a match of \b[a-zA-Z_][a-zA-Z0-9_]*\b starts at position i
WordStart(s, i) ==
    /\ IsWord(Ch(s, i))
    /\ ~IsDigit(Ch(s, i))
    /\ i = 1 \/ ~IsWord(Ch(s, i - 1))

RECURSIVE WordsFrom(_, _)
\* re.findall(r'\b[a-zA-Z_][a-zA-Z0-9_]*\b', content) from position i on
WordsFrom(s, i) ==
    IF i > Len(s) THEN <<>>
    ELSE IF WordStart(s, i)
         THEN <<SubSeq(s, i, WordEnd(s, i) - 1)>> \o WordsFrom(s, WordEnd(s, i))
         ELSE WordsFrom(s, i + 1)

\* self.keywords[word.lower()].append(file_path) on a defaultdict(list)
AppendKeyword(kw, word, path) ==
    [w \in DOMAIN kw \cup {word} |-> IF w = word
                                     THEN (IF w \in DOMAIN kw THEN kw[w] ELSE <<>>) \o <<path>>
                                     ELSE kw[w]]

RECURSIVE IndexWords(_, _, _)
IndexWords(kw, words, path) ==
    IF words = <<>> THEN kw
    ELSE IndexWords(IF Len(Head(words)) > 2 THEN AppendKeyword(kw, Lower(Head(words)), path) ELSE kw,
                    Tail(words), path)

\* SemanticSearch._index_keywords
index_keywords(kw, content, path) == IndexWords(kw, WordsFrom(content, 1), path)

(***************************************************************************)
(* SemanticSearch: the index                                               *)
(*                                                                         *)
(* index is a dict in insertion order (a sequence of records with pairwise *)
(* different paths); file_contents and symbols are functions from paths;   *)
(* keywords is a defaultdict(list): a function from lowercase words to     *)
(* sequences of paths, one element per occurrence of the word.             *)
(***************************************************************************)

search_code_extensions ==
    {".py", ".js", ".ts", ".jsx", ".tsx", ".java", ".cpp", ".c", ".h",
     ".hpp", ".cs", ".php", ".rb", ".go", ".rs", ".swift", ".kt"}

search_skipped_parts == {"node_modules", "__pycache__", ".git", "build", "dist"}

\* Path(root_path).resolve().parts, the directory the program runs in
root_parts == <<"/", "home", "user", "project">>

\* file_path.parts of the file at relative path p
PartsOf(p) == root_parts \o Split(p, "/")

SkippedPart(part) == StartsWith(part, ".") \/ part \in search_skipped_parts

\* the filter of index_codebase on one path of root.rglob('*')
SearchSelected(p) ==
    /\ PathSuffix(p) \in search_code_extensions
    /\ ~\E i \in 1..Len(PartsOf(p)) : SkippedPart(PartsOf(p)[i])

RECURSIVE RGlobDirs(_, _, _, _)
RECURSIVE RGlob(_, _, _)
\* the files of root.rglob('*'): every directory in pre-order, the entries
\* of each in listing order
RGlob(t, prefix, order) ==
    Joined(prefix, Listing(FileNames(t, prefix), order))
        \o RGlobDirs(t, prefix, Listing(DirNames(t, prefix), order), order)

RGlobDirs(t, prefix, dirs, order) ==
    IF dirs = <<>> THEN <<>>
    ELSE RGlob(t, prefix \o Head(dirs) \o "/", order) \o RGlobDirs(t, prefix, Tail(dirs), order)

\* SemanticSearch._detect_language
search_detect_language(path) == LanguageOf(Lower(PathSuffix(path)))

\* _extract_symbols and the words of _index_keywords, evaluated once for
\* every file of the model
SearchSymbols ==
    [path \in AllLocs |-> [content \in AllContents |-> search_extract_symbols(content, path)]]

SearchWords == [content \in AllContents |-> WordsFrom(content, 1)]

\* SemanticSearch.__init__
NewSearch == [index |-> <<>>, file_contents |-> <<>>, symbols |-> <<>>, keywords |-> <<>>]

\* self.index[relative_path] = {...}
SearchRecord(key, fpath, content) ==
    [path     |-> key,
     language |-> search_detect_language(fpath),
     symbols  |-> SearchSymbols[fpath][content],
     content  |-> content,
     size     |-> Len(content),
     lines    |-> Count(content, "\n") + 1]

\* SemanticSearch._index_file on the file at fpath, recorded under key; a
\* file that cannot be opened is reported and leaves the index as it is
search_index_file(st, fpath, key, t) ==
    IF fpath \notin DOMAIN t THEN st
    ELSE [index         |-> Put(st.index, SearchRecord(key, fpath, t[fpath])),
          file_contents |-> (key :> t[fpath]) @@ st.file_contents,
          symbols       |-> (key :> SearchSymbols[fpath][t[fpath]]) @@ st.symbols,
          keywords      |-> IndexWords(st.keywords, SearchWords[t[fpath]], key)]

RECURSIVE SearchIndexFiles(_, _, _)
SearchIndexFiles(st, t, files) ==
    IF files = <<>> THEN st
    ELSE SearchIndexFiles(search_index_file(st, Head(files), Head(files), t), t, Tail(files))

\* SemanticSearch.index_codebase
search_index_codebase(st, t, order) ==
    SearchIndexFiles(st, t, SelectSeq(RGlob(t, "", order), SearchSelected))

RemoveAt(q, i) == SubSeq(q, 1, i - 1) \o SubSeq(q, i + 1, Len(q))

\* list.remove(x) for an x that may be absent
RemoveFirst(q, x) == IF x \in Range(q) THEN RemoveAt(q, MinOf({i \in 1..Len(q) : q[i] = x})) ELSE q

\* symbol.get('name', '').lower() of the symbols of one kind
LowerNames(symbols) ==
    [i \in 1..Len(symbols) |-> IF "name" \in DOMAIN symbols[i] THEN Lower(symbols[i].name) ELSE ""]

\* the names of all symbols of a record, in the order update_file visits them
OldSymbolNames(symbols) == Flatten([k \in 1..Len(SymbolTypes) |-> LowerNames(symbols[SymbolTypes[k]])])

RECURSIVE RemoveSymbolKeywords(_, _, _)
\* if symbol_name in self.keywords and file_path in self.keywords[symbol_name]:
\*     self.keywords[symbol_name].remove(file_path)
RemoveSymbolKeywords(kw, names, path) ==
    IF names = <<>> THEN kw
    ELSE RemoveSymbolKeywords(
             IF Head(names) \in DOMAIN kw
             THEN [kw EXCEPT ![Head(names)] = RemoveFirst(@, path)]
             ELSE kw,
             Tail(names), path)

\* SemanticSearch.update_file: the content argument is not used; the file is
\* read again at file_path and recorded relative to its parent directory
search_update_file(st, file_path, content, t) ==
    search_index_file(
        [st EXCEPT !.keywords =
            IF file_path \in Keys(st.index)
            THEN RemoveSymbolKeywords(@, OldSymbolNames(Get(st.index, file_path).symbols), file_path)
            ELSE @],
        file_path, PathName(file_path), t)

\* del d[key] for a key that may be absent
Without(f, key) == [k \in DOMAIN f \ {key} |-> f[k]]

\* remove_file without del self.symbols[file_path]
search_remove_file_keeping_symbols(st, file_path) ==
    IF file_path \in Keys(st.index)
    THEN [index         |-> SelectSeq(st.index, LAMBDA r : r.path # file_path),
          file_contents |-> Without(st.file_contents, file_path),
          symbols       |-> st.symbols,
          keywords      |-> [w \in DOMAIN st.keywords |-> RemoveFirst(st.keywords[w], file_path)]]
    ELSE st

\* SemanticSearch.remove_file
search_remove_file(st, file_path) ==
    IF file_path \in Keys(st.index)
    THEN [index         |-> SelectSeq(st.index, LAMBDA r : r.path # file_path),
          file_contents |-> Without(st.file_contents, file_path),
          symbols       |-> Without(st.symbols, file_path),
          keywords      |-> [w \in DOMAIN st.keywords |-> RemoveFirst(st.keywords[w], file_path)]]
    ELSE st

\* SemanticSearch.update_file, statement by statement: the index after the
\* keywords of the old symbols are removed, then after _index_file
search_update_file_steps(st, file_path, content, t) ==
    <<[st EXCEPT !.keywords =
          IF file_path \in Keys(st.index)
          THEN RemoveSymbolKeywords(@, OldSymbolNames(Get(st.index, file_path).symbols), file_path)
          ELSE @],
      search_update_file(st, file_path, content, t)>>

\* SemanticSearch.remove_file, statement by statement: the index after each
\* of the three del statements, then after the loop over the keywords
search_remove_file_steps(st, file_path) ==
    IF file_path \notin Keys(st.index) THEN <<st>>
    ELSE <<[st EXCEPT !.index = SelectSeq(@, LAMBDA r : r.path # file_path)],
           [st EXCEPT !.index = SelectSeq(@, LAMBDA r : r.path # file_path),
                      !.file_contents = Without(@, file_path)],
           [st EXCEPT !.index = SelectSeq(@, LAMBDA r : r.path # file_path),
                      !.file_contents = Without(@, file_path),
                      !.symbols = Without(@, file_path)],
           search_remove_file(st, file_path)>>

\* SemanticSearch.clear_index
search_clear_index(st) == NewSearch

not_found == [error |-> "File not found in index"]

\* the decision patterns of _calculate_cyclomatic_complexity
decision_patterns == <<"if", "else", "for", "while", "and", "or", "case", "catch">>

\* the pattern word, without its word boundaries, matches at position i
MatchesAnywhere(content, word, i) ==
    Lower(Slice(content, i, i + Len(word) - 1)) = word

\* the pattern \bword\b matches at position i of content under re.IGNORECASE
MatchesAt(content, word, i) ==
    /\ Lower(Slice(content, i, i + Len(word) - 1)) = word
    /\ ~IsWord(Ch(content, i - 1))
    /\ ~IsWord(Ch(content, i + Len(word)))

\* len(re.findall(pattern, content, re.IGNORECASE)): matches of one pattern
\* cannot overlap, each position where it matches is one match
FindAll(content, word) == Cardinality({i \in 1..Len(content) : MatchesAt(content, word, i)})

RECURSIVE CountDecisions(_, _)
\* the loop over the decision patterns from pattern k on
CountDecisions(content, k) ==
    IF k > Len(decision_patterns) THEN 0
    ELSE FindAll(content, decision_patterns[k]) + CountDecisions(content, k + 1)

\* CodebaseAnalyzer._calculate_cyclomatic_complexity
calculate_cyclomatic_complexity(content) == 1 + CountDecisions(content, 1)

\* CodebaseAnalyzer._calculate_complexity
calculate_complexity(file_info) ==
    [lines_of_code |-> Len(Split(file_info.content, "\n")),
     functions     |-> Len(file_info.functions),
     classes       |-> Len(file_info.classes),
     imports       |-> Len(file_info.imports),
     comments      |-> Len(file_info.comments),
     cyclomatic    |-> calculate_cyclomatic_complexity(file_info.content)]

\* d[key] on the defaultdict: a missing key is inserted with the empty set
defaultdict_index_effect(d, key) == IF key \in DOMAIN d THEN d ELSE d @@ (key :> {})

\* dict.get(key, default) on the defaultdict: the dictionary after the call
\* (get returns the default without inserting it)
dict_get_effect(d, key) == d

\* CodebaseAnalyzer.analyze_file on an indexed path: the file_info,
\* complexity and dependencies entries of the analysis
analysis_of(an, file_path) ==
    [file_info    |-> Get(an.file_index, file_path),
     complexity   |-> calculate_complexity(Get(an.file_index, file_path)),
     dependencies |-> IF file_path \in DOMAIN an.dependency_graph
                      THEN an.dependency_graph[file_path] ELSE {}]

\* analyze_file without its membership test: file_index[file_path] raises
analyze_file_unguarded(an, file_path) ==
    IF file_path \notin Keys(an.file_index) THEN [raised |-> "KeyError"]
    ELSE analysis_of(an, file_path)

\* CodebaseAnalyzer.analyze_file: what the call returns
analyze_file_of(an, file_path) ==
    IF file_path \notin Keys(an.file_index) THEN not_found
    ELSE analysis_of(an, file_path)

\* CodebaseAnalyzer.analyze_file: the analyzer after the call
analyze_file_effect(an, file_path) ==
    IF file_path \notin Keys(an.file_index) THEN an
    ELSE [an EXCEPT !.dependency_graph = dict_get_effect(an.dependency_graph, file_path)]
(***************************************************************************)
(* Python float: IEEE-754 binary64, round to nearest, ties to even         *)
(*                                                                         *)
(* A score is a non-negative double below 2^16.  Every double that arises  *)
(* is a multiple of 2^-56 (the smallest non-zero term is 1 * 0.1), so a    *)
(* double is held as the integer number of units of 2^-56, written in base *)
(* 2^20 with the least significant limb first.                             *)
(***************************************************************************)

Base == 1048576

Limbs == 4

Zero == <<0, 0, 0, 0>>

\* x + y of two limb sequences, limb by limb from position i with carry c
RECURSIVE AddFrom(_, _, _, _)
AddFrom(x, y, i, c) ==
    IF i > Limbs THEN <<>>
    ELSE <<(x[i] + y[i] + c) % Base>> \o AddFrom(x, y, i + 1, (x[i] + y[i] + c) \div Base)

BigAdd(x, y) == AddFrom(x, y, 1, 0)

\* x * k for a small natural k
RECURSIVE MulFrom(_, _, _, _)
MulFrom(x, k, i, c) ==
    IF i > Limbs THEN <<>>
    ELSE <<(x[i] * k + c) % Base>> \o MulFrom(x, k, i + 1, (x[i] * k + c) \div Base)

BigMul(x, k) == MulFrom(x, k, 1, 0)

\* x < y, compared from the most significant limb i down
RECURSIVE LessFrom(_, _, _)
LessFrom(x, y, i) ==
    IF i = 0 THEN FALSE
    ELSE IF x[i] # y[i] THEN x[i] < y[i]
    ELSE LessFrom(x, y, i - 1)

BigLess(x, y) == LessFrom(x, y, Limbs)

\* the number of bits of a natural below Base
RECURSIVE BitLen(_)
BitLen(n) == IF n = 0 THEN 0 ELSE 1 + BitLen(n \div 2)

TopLimb(x) == MaxOf({i \in 1..Limbs : x[i] # 0})

\* the number of significant bits of x
BigBits(x) == IF x = Zero THEN 0 ELSE 20 * (TopLimb(x) - 1) + BitLen(x[TopLimb(x)])

\* x with its d low bits rounded away to the nearest multiple of 2^d, ties
\* to the even multiple; d is below 20, so the bits lie in the first limb
RoundBits(x, d) ==
    IF d <= 0 THEN x
    ELSE IF \/ x[1] % (2 ^ d) > 2 ^ (d - 1)
            \/ x[1] % (2 ^ d) = 2 ^ (d - 1) /\ (x[1] \div (2 ^ d)) % 2 = 1
         THEN BigAdd([x EXCEPT ![1] = @ - (@ % (2 ^ d))], <<2 ^ d, 0, 0, 0>>)
         ELSE [x EXCEPT ![1] = @ - (@ % (2 ^ d))]

\* the double nearest to the exact value x: 53 significant bits
Round53(x) == RoundBits(x, BigBits(x) - 53)

\* the doubles 0.1, 0.2, 0.3 and 0.4: 0x1999999999999A * 2^-56,
\* 0x1999999999999A * 2^-55, 0x13333333333333 * 2^-54, 0x1999999999999A * 2^-54
Mant9A == <<629146, 629145, 6553, 0>>

Mant33 == <<209715, 209715, 4915, 0>>

Weight(w) ==
    CASE w = "0.1" -> Mant9A
      [] w = "0.2" -> BigMul(Mant9A, 2)
      [] w = "0.3" -> BigMul(Mant33, 4)
      [] w = "0.4" -> BigMul(Mant9A, 4)

\* float(n) for a small natural n: n * 2^56
FloatOf(n) == BigMul(<<0, 0, 65536, 0>>, n)

\* n * w for an int n in 0..100 and a weight w
FMul(n, w) == Round53(BigMul(Weight(w), n))

\* x + y
FAdd(x, y) == Round53(BigAdd(x, y))

\* n * w for every ratio n, evaluated once
Products == [w \in {"0.1", "0.2", "0.3", "0.4"} |-> [n \in 0..100 |-> FMul(n, w)]]

(***************************************************************************)
(* fuzz.partial_ratio, over difflib.SequenceMatcher                        *)
(*                                                                         *)
(* Positions are 1-based and ranges half-open: a[alo..ahi-1].  No          *)
(* character is junk (isjunk is None); in a string b of 200 characters or  *)
(* more, the characters that make up more than 1% of b are popular and are *)
(* left out of b2j (autojunk).                                             *)
(***************************************************************************)

\* the popular characters of b
Popular(b) ==
    IF Len(b) >= 200
    THEN {c \in {Ch(b, j) : j \in 1..Len(b)} : Count(b, c) > Len(b) \div 100 + 1}
    ELSE {}

\* the length of the common run of a from i and b from j, of characters not
\* in pop
RECURSIVE Run(_, _, _, _, _, _, _)
Run(a, i, ahi, b, j, bhi, pop) ==
    IF i < ahi /\ j < bhi /\ Ch(a, i) = Ch(b, j) /\ Ch(b, j) \notin pop
    THEN 1 + Run(a, i + 1, ahi, b, j + 1, bhi, pop)
    ELSE 0

\* the length of the common run of a before i and b before j
RECURSIVE RunBack(_, _, _, _, _, _)
RunBack(a, i, alo, b, j, blo) ==
    IF i > alo /\ j > blo /\ Ch(a, i - 1) = Ch(b, j - 1)
    THEN 1 + RunBack(a, i - 1, alo, b, j - 1, blo)
    ELSE 0

\* find_longest_match over b2j: the longest block, of those the one that
\* starts earliest in a, and of those the one that starts earliest in b;
\* <<alo, blo, 0>> if there is none
BestSize(a, alo, ahi, b, blo, bhi, pop) ==
    MaxOf({Run(a, i, ahi, b, j, bhi, pop) : i \in alo..(ahi - 1), j \in blo..(bhi - 1)})

BestI(a, alo, ahi, b, blo, bhi, pop, k) ==
    IF k = 0 THEN alo
    ELSE MinOf({i \in alo..(ahi - 1) : \E j \in blo..(bhi - 1) : Run(a, i, ahi, b, j, bhi, pop) = k})

BestJ(a, i, ahi, b, blo, bhi, pop, k) ==
    IF k = 0 THEN blo
    ELSE MinOf({j \in blo..(bhi - 1) : Run(a, i, ahi, b, j, bhi, pop) = k})

\* find_longest_match: the block <<i, j, k>> of b2j, extended to the left and
\* to the right as far as the strings agree
Extended(a, alo, ahi, b, blo, bhi, i, j, k) ==
    <<i - RunBack(a, i, alo, b, j, blo),
      j - RunBack(a, i, alo, b, j, blo),
      k + RunBack(a, i, alo, b, j, blo) + Run(a, i + k, ahi, b, j + k, bhi, {})>>

RECURSIVE Blocks(_, _, _, _, _, _, _)
RECURSIVE BlocksOfSize(_, _, _, _, _, _, _, _)
RECURSIVE BlocksAtI(_, _, _, _, _, _, _, _, _)
RECURSIVE BlocksAt(_, _, _, _, _, _, _, _)
\* the matching blocks <<i, j, k>> of a[alo..ahi-1] and b[blo..bhi-1], in
\* increasing order: the longest block, and the blocks left and right of it
Blocks(a, alo, ahi, b, blo, bhi, pop) ==
    IF alo >= ahi \/ blo >= bhi THEN <<>>
    ELSE BlocksOfSize(a, alo, ahi, b, blo, bhi, pop, BestSize(a, alo, ahi, b, blo, bhi, pop))

BlocksOfSize(a, alo, ahi, b, blo, bhi, pop, k) ==
    BlocksAtI(a, alo, ahi, b, blo, bhi, pop, k, BestI(a, alo, ahi, b, blo, bhi, pop, k))

BlocksAtI(a, alo, ahi, b, blo, bhi, pop, k, i) ==
    BlocksAt(a, alo, ahi, b, blo, bhi, pop,
             Extended(a, alo, ahi, b, blo, bhi, i, BestJ(a, i, ahi, b, blo, bhi, pop, k), k))

BlocksAt(a, alo, ahi, b, blo, bhi, pop, block) ==
    IF block[3] = 0 THEN <<>>
    ELSE Blocks(a, alo, block[1], b, blo, block[2], pop)
             \o <<block>>
             \o Blocks(a, block[1] + block[3], ahi, b, block[2] + block[3], bhi, pop)

RECURSIVE Collapse(_, _)
\* adjacent blocks are merged into one; cur is the block being grown
Collapse(blocks, cur) ==
    IF blocks = <<>> THEN (IF cur[3] > 0 THEN <<cur>> ELSE <<>>)
    ELSE IF cur[1] + cur[3] = Head(blocks)[1] /\ cur[2] + cur[3] = Head(blocks)[2]
         THEN Collapse(Tail(blocks), <<cur[1], cur[2], cur[3] + Head(blocks)[3]>>)
         ELSE (IF cur[3] > 0 THEN <<cur>> ELSE <<>>) \o Collapse(Tail(blocks), Head(blocks))

\* SequenceMatcher(None, a, b).get_matching_blocks(), ending with the
\* dummy block of size 0 after both strings
get_matching_blocks(a, b) ==
    Collapse(Blocks(a, 1, Len(a) + 1, b, 1, Len(b) + 1, Popular(b)), <<1, 1, 0>>)
        \o <<<<Len(a) + 1, Len(b) + 1, 0>>>>

RECURSIVE SumSizes(_)
SumSizes(blocks) == IF blocks = <<>> THEN 0 ELSE Head(blocks)[3] + SumSizes(Tail(blocks))

\* SequenceMatcher(None, a, b).ratio() as the fraction <<2 * matches, length>>
ratio(a, b) == <<2 * SumSizes(get_matching_blocks(a, b)), Len(a) + Len(b)>>

\* long_start = block[1] - block[0] if (block[1] - block[0]) > 0 else 0
LongStart(block) == IF block[2] - block[1] > 0 THEN block[2] - block[1] ELSE 0

\* the ratio of shorter and longer[long_start:long_start + len(shorter)]
BlockRatio(shorter, longer, block) ==
    ratio(shorter, Slice(longer, LongStart(block) + 1, LongStart(block) + Len(shorter)))

\* the ratios of all blocks
BlockRatios(shorter, longer, blocks) ==
    {BlockRatio(shorter, longer, blocks[n]) : n \in 1..Len(blocks)}

\* a fraction of F that no fraction of F exceeds
MaxRatio(F) == CHOOSE r \in F : \A s \in F : s[1] * r[2] <= r[1] * s[2]

\* round(n / d), ties to the even integer
RoundDiv(n, d) ==
    IF 2 * (n % d) > d \/ (2 * (n % d) = d /\ (n \div d) % 2 = 1) THEN n \div d + 1 ELSE n \div d

\* 100 if a ratio is above .995, else int(round(100 * max(scores)))
BestRatio(F) ==
    IF \E r \in F : 1000 * r[1] > 995 * r[2] THEN 100
    ELSE RoundDiv(100 * MaxRatio(F)[1], MaxRatio(F)[2])

PartialRatio(shorter, longer) ==
    BestRatio(BlockRatios(shorter, longer, get_matching_blocks(shorter, longer)))

\* fuzz.partial_ratio(s1, s2): 100 for equal strings, 0 if one is empty
partial_ratio(s1, s2) ==
    IF s1 = s2 THEN 100
    ELSE IF Len(s1) = 0 \/ Len(s2) = 0 THEN 0
    ELSE IF Len(s1) <= Len(s2) THEN PartialRatio(s1, s2)
    ELSE PartialRatio(s2, s1)

(***************************************************************************)
(* CodebaseAnalyzer: queries                                               *)
(***************************************************************************)

\* symbol.get('name', '').lower() of every symbol of a record, kind by kind
SymbolNamesOf(rec) == OldSymbolNames(rec.symbols)

RECURSIVE AddRatios(_, _, _, _)
\* for target in targets: score += fuzz.partial_ratio(query_lower, target.lower()) * w
AddRatios(score, query_lower, targets, w) ==
    IF targets = <<>> THEN score
    ELSE AddRatios(FAdd(score, Products[w][partial_ratio(query_lower, Lower(Head(targets)))]),
                   query_lower, Tail(targets), w)

\* the score _semantic_search gives a record: file name, content, symbol
\* names and comments, added up in this order
file_score(query_lower, rec) ==
    AddRatios(
        AddRatios(
            AddRatios(
                AddRatios(Zero, query_lower, <<PathName(rec.path)>>, "0.3"),
                query_lower, <<rec.content>>, "0.4"),
            query_lower, SymbolNamesOf(rec), "0.2"),
        query_lower, rec.comments, "0.1")

\* the queries of the model
Queries == {"src/utils", "Src/Utils", "zccxc", "ab"}

\* the queries the search command is given
SemanticQueries == {"zccxc", "ab", "x=1"}

RECURSIVE ScoresFrom(_, _, _)
\* scores.append((file_path, score)) for the records from the i-th on
ScoresFrom(fi, query_lower, i) ==
    IF i > Len(fi) THEN <<>>
    ELSE <<[path |-> fi[i].path, score |-> file_score(query_lower, fi[i])]>>
             \o ScoresFrom(fi, query_lower, i + 1)

\* the list scores after the loop over file_index
ScoresOf(fi, query_lower) == ScoresFrom(fi, query_lower, 1)

\* sorted, greatest score first, with entry put behind the entries that
\* score as much or more
InsertByScore(sorted, entry) ==
    InsertAt(sorted, entry,
             Cardinality({i \in 1..Len(sorted) : ~BigLess(sorted[i].score, entry.score)}))

RECURSIVE SortInto(_, _)
SortInto(sorted, scores) ==
    IF scores = <<>> THEN sorted
    ELSE SortInto(InsertByScore(sorted, Head(scores)), Tail(scores))

\* a sort, greatest first, that puts equal scores in the reverse of the
\* order they were appended in
SortByScoreUnstable(scores) == SortInto(<<>>, Reverse(scores))

\* scores.sort(key=lambda x: x[1], reverse=True): stable, greatest first
SortByScore(scores) == SortInto(<<>>, scores)

score_threshold == 30

\* if score > 30
AboveThreshold(entry) == BigLess(FloatOf(score_threshold), entry.score)

PathsOf(entries) == [i \in 1..Len(entries) |-> entries[i].path]

\* CodebaseAnalyzer._semantic_search
semantic_search(fi, query) ==
    PathsOf(SelectSeq(SortByScore(ScoresOf(fi, Lower(query))), AboveThreshold))

\* _directory_search without matching_files.sort()
directory_search_unsorted(fi, query) ==
    SelectSeq(KeySeq(fi), LAMBDA p : Contains(Lower(p), Lower(query)))

\* CodebaseAnalyzer._directory_search
directory_search(fi, query) ==
    SortedSeq({p \in Keys(fi) : Contains(Lower(p), Lower(query))})

RECURSIVE SumOf(_)
SumOf(q) == IF q = <<>> THEN 0 ELSE Head(q) + SumOf(Tail(q))

\* CodebaseAnalyzer._generate_codebase_summary (root_path is fixed)
generate_codebase_summary(fi) ==
    [total_files     |-> Len(fi),
     total_lines     |-> SumOf([i \in 1..Len(fi) |-> Len(Split(fi[i].content, "\n"))]),
     languages       |-> [l \in {fi[i].language : i \in 1..Len(fi)} |->
                             Cardinality({i \in 1..Len(fi) : fi[i].language = l})],
     total_functions |-> SumOf([i \in 1..Len(fi) |-> Len(fi[i].functions)]),
     total_classes   |-> SumOf([i \in 1..Len(fi) |-> Len(fi[i].classes)])]

max_context_files == 10

max_content_chars == 2000

\* the test of the mode on the query as it is written
IsDirectoryQueryAsWritten(query) ==
    \/ Contains(query, "/")
    \/ Contains(query, "directory")
    \/ Contains(query, "folder")

\* '/' in query or 'directory' in query_lower or 'folder' in query_lower
IsDirectoryQuery(query) ==
    \/ Contains(query, "/")
    \/ Contains(Lower(query), "directory")
    \/ Contains(Lower(query), "folder")

\* the entry of context['relevant_files'] with file_info['content'] in place
\* of file_info['content'][:2000]
ContextFileWhole(rec) ==
    [path     |-> rec.path,
     content  |-> rec.content,
     symbols  |-> rec.symbols,
     language |-> rec.language]

\* the entry of context['relevant_files'] for one file
ContextFile(rec) ==
    [path     |-> rec.path,
     content  |-> Slice(rec.content, 1, max_content_chars),
     symbols  |-> rec.symbols,
     language |-> rec.language]

\* q[:n]
FirstN(q, n) == SubSeq(q, 1, IF Len(q) < n THEN Len(q) ELSE n)

ContextFilesOf(fi, paths) == [i \in 1..Len(paths) |-> ContextFile(Get(fi, paths[i]))]

\* for file_path in relevant_files[:10]: if file_path in self.file_index: ...
ContextFiles(fi, relevant_files) ==
    ContextFilesOf(fi, SelectSeq(FirstN(relevant_files, max_context_files), LAMBDA p : p \in Keys(fi)))

\* CodebaseAnalyzer.get_relevant_context
get_relevant_context_of(an, query) ==
    [relevant_files   |-> ContextFiles(an.file_index,
                              IF IsDirectoryQuery(query) THEN directory_search(an.file_index, query)
                              ELSE semantic_search(an.file_index, query)),
     related_symbols  |-> <<>>,
     codebase_summary |-> generate_codebase_summary(an.file_index),
     coding_standards |-> an.coding_standards]

(***************************************************************************)
(* State                                                                   *)
(***************************************************************************)

VARIABLES
    tree,              \* the files below root_path: relative path -> content
    scan_order,        \* the listing order of the filesystem
    root,              \* what root_path is on the filesystem
    conversation_history, \* AIAgent.conversation_history
    task,              \* the handler the event loop is running, and the steps it has left
    file_index,        \* CodebaseAnalyzer.file_index
    symbol_index,      \* CodebaseAnalyzer.symbol_index
    dependency_graph,  \* CodebaseAnalyzer.dependency_graph
    coding_standards,  \* CodebaseAnalyzer.coding_standards
    edits,             \* number of changes made to the tree
    synced,            \* "build"/"refresh" while the tree is as the last build/refresh saw it, else "stale"
    refreshes,         \* the Index after each refresh_index since the tree last changed (last two)
    ever_indexed,      \* every path that has had a FileRecord
    index,             \* SemanticSearch.index
    file_contents,     \* SemanticSearch.file_contents
    symbols,           \* SemanticSearch.symbols
    keywords,          \* SemanticSearch.keywords
    calls,             \* number of calls made to the program
    last,              \* the last call: its name and arguments, and the indexes it was made on
    result             \* what the last call returned

analyzerVars == <<file_index, symbol_index, dependency_graph, coding_standards>>

searchVars == <<index, file_contents, symbols, keywords>>

callVars == <<calls, last, result>>

vars == <<tree, scan_order, root, conversation_history, task, analyzerVars, edits, synced, refreshes, ever_indexed, searchVars, callVars>>

Analyzer ==
    [file_index |-> file_index, symbol_index |-> symbol_index,
     dependency_graph |-> dependency_graph, coding_standards |-> coding_standards]

SetAnalyzer(st) ==
    /\ file_index' = st.file_index
    /\ symbol_index' = st.symbol_index
    /\ dependency_graph' = st.dependency_graph
    /\ coding_standards' = st.coding_standards

Search == [index |-> index, file_contents |-> file_contents, symbols |-> symbols, keywords |-> keywords]

SetSearch(st) ==
    /\ index' = st.index
    /\ file_contents' = st.file_contents
    /\ symbols' = st.symbols
    /\ keywords' = st.keywords

\* the event loop runs no handler
Idle == [op |-> "idle", steps |-> <<>>]

NoCall == [op |-> "", path |-> "", content |-> "", before |-> NewSearch, files |-> <<>>, after_remove |-> FALSE]

\* a call of op with its arguments, made in the current state
Call(op, path, content) ==
    [op |-> op, path |-> path, content |-> content, before |-> Search, files |-> file_index,
     after_remove |-> /\ op = "analyze_file"
                      /\ last.op = "remove_file"
                      /\ last.path = path
                      /\ path \in Keys(last.before.index)]

(***************************************************************************)
(* Specification of the analyzer over a changing tree                      *)
(***************************************************************************)

\* TerminalClaude.__init__ on a tree: CodebaseAnalyzer() builds its index,
\* SemanticSearch() starts empty
Constructed(trees, roots) ==
    /\ root \in roots
    /\ tree \in IF root = "missing" THEN {NoTree} ELSE trees
    /\ scan_order \in ScanOrders
    /\ task = Idle
    /\ conversation_history = <<>>
    /\ \E st \in {build_index(NewAnalyzer, Listed(root, tree), scan_order)} :
           /\ file_index = st.file_index
           /\ symbol_index = st.symbol_index
           /\ dependency_graph = st.dependency_graph
           /\ coding_standards = st.coding_standards
           /\ ever_indexed = Keys(st.file_index)
    /\ edits = 0
    /\ synced = "build"
    /\ refreshes = <<>>
    /\ index = NewSearch.index
    /\ file_contents = NewSearch.file_contents
    /\ symbols = NewSearch.symbols
    /\ keywords = NewSearch.keywords
    /\ calls = 0

\* the program started in a directory that exists
InitOn(trees) ==
    /\ Constructed(trees, {"directory"})
    /\ last = NoCall
    /\ result = <<>>

Init == InitOn(InitTrees)

\* a file is created or overwritten outside the program
WriteFile(p, c) ==
    /\ edits < MaxEdits
    /\ root # "missing"
    /\ IF p \in DOMAIN tree THEN tree[p] # c ELSE TRUE
    /\ tree' = [q \in DOMAIN tree \cup {p} |-> IF q = p THEN c ELSE tree[q]]
    /\ edits' = edits + 1
    /\ synced' = "stale"
    /\ refreshes' = <<>>
    /\ UNCHANGED <<scan_order, root, conversation_history, task, analyzerVars, ever_indexed, searchVars, callVars>>

\* a file is deleted outside the program
DeleteFile(p) ==
    /\ edits < MaxEdits
    /\ p \in DOMAIN tree
    /\ tree' = [q \in DOMAIN tree \ {p} |-> tree[q]]
    /\ edits' = edits + 1
    /\ synced' = "stale"
    /\ refreshes' = <<>>
    /\ UNCHANGED <<scan_order, root, conversation_history, task, analyzerVars, ever_indexed, searchVars, callVars>>

\* CodebaseAnalyzer.refresh_index
refresh_index ==
    \E st \in {refresh_index_of(Analyzer, Listed(root, tree), scan_order)} :
        /\ Len(refreshes) < 2
        /\ SetAnalyzer(st)
        /\ synced' = "refresh"
        /\ refreshes' = Append(refreshes, st)
        /\ ever_indexed' = ever_indexed \cup Keys(st.file_index)
        /\ UNCHANGED <<tree, scan_order, root, conversation_history, task, edits, searchVars, callVars>>

Next ==
    \/ \E p \in Locs, c \in Contents : WriteFile(p, c)
    \/ \E p \in Locs : DeleteFile(p)
    \/ refresh_index

Spec == Init /\ [][Next]_vars

(***************************************************************************)
(* Specification of the search index next to the analyzer                  *)
(***************************************************************************)

InitSearch == InitOn(SearchTrees)

Called(op, path, content, st, res) ==
    /\ calls < MaxCalls
    /\ calls' = calls + 1
    /\ last' = Call(op, path, content)
    /\ result' = res
    /\ SetSearch(st)
    /\ UNCHANGED <<tree, scan_order, root, conversation_history, task, analyzerVars, edits, synced, refreshes, ever_indexed>>

\* a call that reads the indexes and changes neither
Asked(op, path, res) ==
    /\ last' = Call(op, path, "")
    /\ result' = res
    /\ UNCHANGED <<tree, scan_order, root, conversation_history, task, analyzerVars, edits, synced, refreshes, ever_indexed, searchVars, calls>>

\* SemanticSearch.index_codebase()
index_codebase == Called("index_codebase", "", "", search_index_codebase(Search, tree, scan_order), <<>>)

\* SemanticSearch.update_file(file_path, content)
update_file(file_path, content) ==
    Called("update_file", file_path, content, search_update_file(Search, file_path, content, tree), <<>>)

\* SemanticSearch.remove_file(file_path)
remove_file(file_path) ==
    Called("remove_file", file_path, "", search_remove_file(Search, file_path), <<>>)

\* SemanticSearch.clear_index()
clear_index == Called("clear_index", "", "", search_clear_index(Search), <<>>)

\* CodebaseAnalyzer.analyze_file(file_path)
analyze_file(file_path) ==
    /\ last' = Call("analyze_file", file_path, "")
    /\ result' = analyze_file_of(Analyzer, file_path)
    /\ SetAnalyzer(analyze_file_effect(Analyzer, file_path))
    /\ UNCHANGED <<tree, scan_order, root, conversation_history, task, edits, synced, refreshes, ever_indexed, searchVars, calls>>

NextSearch ==
    \/ \E p \in SearchLocs, c \in SearchContents : WriteFile(p, c)
    \/ index_codebase
    \/ \E p \in SearchLocs, c \in SearchContents : update_file(p, c)
    \/ \E p \in SearchLocs : remove_file(p)
    \/ clear_index
    \/ \E p \in SearchLocs : analyze_file(p)

SpecSearch == InitSearch /\ [][NextSearch]_vars

(***************************************************************************)
(* Specification of the builds: any root, files that cannot be read        *)
(***************************************************************************)

ConstructorCall == [NoCall EXCEPT !.op = "CodebaseAnalyzer"]

InitBuild ==
    /\ Constructed(BuildTrees, RootStates)
    /\ last = ConstructorCall
    /\ result = [raised |-> init_raises(root)]

\* CodebaseAnalyzer(root_path) once more, on the tree as it is now
construct ==
    \E st \in {build_index(NewAnalyzer, Listed(root, tree), scan_order)} :
        /\ SetAnalyzer(st)
        /\ synced' = "build"
        /\ refreshes' = <<>>
        /\ ever_indexed' = ever_indexed \cup Keys(st.file_index)
        /\ last' = ConstructorCall
        /\ result' = [raised |-> init_raises(root)]
        /\ UNCHANGED <<tree, scan_order, root, conversation_history, task, edits, searchVars, calls>>

NextBuild ==
    \/ \E w \in BuildWrites : WriteFile(w[1], w[2])
    \/ \E p \in BuildDeletes : DeleteFile(p)
    \/ refresh_index
    \/ construct
    \/ \E p \in BuildPaths : analyze_file(p)

SpecBuild == InitBuild /\ [][NextBuild]_vars

(***************************************************************************)
(* Properties of the walk and of refresh_index                             *)
(***************************************************************************)

\* the directory names the walk is required to exclude
ExcludedNames ==
    {"node_modules", "__pycache__", ".git", "build", "dist", "target",
     "venv", "env", ".venv", ".env", "bin", "obj"}

\* the directories above the file of path p
DirsOf(p) == SubSeq(Split(p, "/"), 1, Len(Split(p, "/")) - 1)

\* path p lies beneath an excluded directory, at any depth below the root
UnderExcluded(p) == \E d \in Range(DirsOf(p)) : StartsWith(d, ".") \/ d \in ExcludedNames

\* C1: after the build and after every refresh, no FileRecord exists for a
\* file beneath a directory whose name starts with '.' or is on the
\* denylist, at any nesting depth
C1_NoRecordBelowExcluded == \A p \in Keys(file_index) : ~UnderExcluded(p)

\* a refresh has walked a tree holding code files below a nested denylisted
\* directory and below a dot directory, next to an indexed file
C1_Witness ==
    /\ synced = "refresh"
    /\ {"src/build/x/c.py", "src/.cache/d.py"} \subseteq DOMAIN tree
    /\ "src/b.py" \in Keys(file_index)

\* C6: two refreshes in a row on an unchanged tree yield the same Index:
\* the same keys, records, Symbol Table, Dependency Graph and
\* CodingStandards
C6_RefreshIdempotent == Len(refreshes) = 2 => refreshes[1] = refreshes[2]

\* two refreshes in a row, after a change of the tree, of an Index with
\* records, symbols and edges
C6_Witness ==
    /\ Len(refreshes) = 2
    /\ edits > 0
    /\ Len(file_index) >= 2
    /\ DOMAIN symbol_index # {}
    /\ DOMAIN dependency_graph # {}

\* C7: after a refresh, a file that was indexed before and has been deleted
\* from the tree has no FileRecord, no Symbol Table entry and no Dependency
\* Graph edge from or to it
C7_RefreshDropsDeleted ==
    synced = "refresh" =>
        \A p \in ever_indexed \ DOMAIN tree :
            /\ p \notin Keys(file_index)
            /\ \A n \in DOMAIN symbol_index : symbol_index[n].file # p
            /\ p \notin DOMAIN dependency_graph
            /\ \A f \in DOMAIN dependency_graph : p \notin dependency_graph[f]

\* a refresh after the target of a dependency edge was deleted
C7_Witness ==
    /\ synced = "refresh"
    /\ "src/b.py" \in ever_indexed \ DOMAIN tree
    /\ "a.py" \in Keys(file_index)
    /\ Get(file_index, "a.py").imports = <<"b">>

(***************************************************************************)
(* Specification of the queries on the analyzer                            *)
(***************************************************************************)

InitQuery == InitOn(QueryTrees)

\* CodebaseAnalyzer.get_relevant_context(query)
get_relevant_context(query) ==
    Asked("get_relevant_context", query, get_relevant_context_of(Analyzer, query))

\* CodebaseAnalyzer._semantic_search(query), as the search command calls it
semantic_search_call(query) ==
    Asked("semantic_search", query, semantic_search(file_index, query))

NextQuery ==
    \/ \E w \in QueryWrites : WriteFile(w[1], w[2])
    \/ \E p \in QueryDeletes : DeleteFile(p)
    \/ refresh_index
    \/ \E q \in Queries : get_relevant_context(q)
    \/ \E q \in SemanticQueries : semantic_search_call(q)

SpecQuery == InitQuery /\ [][NextQuery]_vars

(***************************************************************************)
(* Specification of the context queries on a tree with a long file         *)
(***************************************************************************)

InitContext == InitOn(ContextTrees)

NextContext ==
    \/ \E w \in QueryWrites : WriteFile(w[1], w[2])
    \/ \E p \in QueryDeletes : DeleteFile(p)
    \/ refresh_index
    \/ \E q \in ContextQueries : get_relevant_context(q)
    \/ \E p \in AnalyzePaths : analyze_file(p)

SpecContext == InitContext /\ [][NextContext]_vars

(***************************************************************************)
(* Specification of the event loop: the handlers that change the indexes   *)
(* run statement by statement, the queries are calls of the same loop      *)
(***************************************************************************)

\* the states a handler passes through, from lists of analyzer states and of
\* search index states
AnalyzerSteps(states) == [i \in 1..Len(states) |-> [an |-> states[i], se |-> Search]]

SearchSteps(states) == [i \in 1..Len(states) |-> [an |-> Analyzer, se |-> states[i]]]

\* the event loop can run a call: refresh_index, update_file and remove_file
\* are plain functions without an await, no other call starts before the
\* one that runs has returned, and no thread of the program touches the
\* indexes
LoopFreeAtAwait(t) == TRUE

LoopFree(t) == t.op = "idle"

\* a handler that changes the indexes is called
Started(op, path, content, steps) ==
    /\ LoopFree(task)
    /\ calls < MaxCalls
    /\ calls' = calls + 1
    /\ last' = Call(op, path, content)
    /\ result' = <<>>
    /\ task' = [op |-> op, steps |-> steps, before |-> [an |-> Analyzer, se |-> Search]]
    /\ UNCHANGED <<tree, scan_order, root, conversation_history, analyzerVars, edits, synced, refreshes, ever_indexed, searchVars>>

start_refresh_index ==
    /\ Len(refreshes) < 2
    /\ Started("refresh_index", "", "", AnalyzerSteps(refresh_index_steps(Analyzer, Listed(root, tree), scan_order)))

start_update_file(file_path, content) ==
    Started("update_file", file_path, content, SearchSteps(search_update_file_steps(Search, file_path, content, tree)))

start_remove_file(file_path) ==
    Started("remove_file", file_path, "", SearchSteps(search_remove_file_steps(Search, file_path)))

\* the handler that runs executes its next statement, and returns after its
\* last
run_step ==
    /\ task.op # "idle"
    /\ SetAnalyzer(Head(task.steps).an)
    /\ SetSearch(Head(task.steps).se)
    /\ task' = IF Len(task.steps) = 1 THEN Idle ELSE [task EXCEPT !.steps = Tail(@)]
    /\ IF Len(task.steps) = 1 /\ task.op = "refresh_index"
       THEN /\ synced' = "refresh"
            /\ refreshes' = Append(refreshes, Head(task.steps).an)
            /\ ever_indexed' = ever_indexed \cup Keys(Head(task.steps).an.file_index)
       ELSE UNCHANGED <<synced, refreshes, ever_indexed>>
    /\ UNCHANGED <<tree, scan_order, root, conversation_history, edits, callVars>>

InitLoop == InitOn(SearchTrees)

NextLoop ==
    \/ LoopFree(task) /\ index_codebase
    \/ start_refresh_index
    \/ \E p \in SearchLocs, c \in LoopContents : start_update_file(p, c)
    \/ \E p \in SearchLocs : start_remove_file(p)
    \/ run_step
    \/ \E p \in SearchLocs : LoopFree(task) /\ analyze_file(p)
    \/ \E q \in LoopQueries : LoopFree(task) /\ get_relevant_context(q)

SpecLoop == InitLoop /\ [][NextLoop]_vars


(***************************************************************************)
(* Properties of remove_file and update_file                               *)
(***************************************************************************)

\* C2: remove_file(p) of an indexed path p followed by analyze_file(p)
\* returns the 'not found' result, never the record stored for p
C2_RemoveThenAnalyzeNotFound ==
    (last.op = "analyze_file" /\ last.after_remove) => result = not_found

\* the lowercase tokens of a content that the Keyword Index records
TokensOf(content) ==
    {Lower(SearchWords[content][i]) :
        i \in {j \in 1..Len(SearchWords[content]) : Len(SearchWords[content][j]) > 2}}

\* C3: after remove_file(p) no Keyword Index entry contains p and the
\* per-file symbol store has no entry for p, whatever the content of p was
C3_RemovePurgesKeywordsAndSymbols ==
    last.op = "remove_file" =>
        /\ \A w \in DOMAIN keywords : last.path \notin Range(keywords[w])
        /\ last.path \notin DOMAIN symbols

\* C4: after update_file(p, newContent) the index holds one record for p,
\* under the key p, with content newContent; every other record is
\* unchanged and no record under another key is created
C4_UpdateReplacesRecord ==
    last.op = "update_file" =>
        /\ Cardinality({i \in 1..Len(index) : index[i].path = last.path}) = 1
        /\ \A i \in 1..Len(index) : index[i].path = last.path => index[i].content = last.content
        /\ Keys(index) \ {last.path} = Keys(last.before.index) \ {last.path}
        /\ \A q \in Keys(index) \ {last.path} :
               q \in Keys(last.before.index) => Get(index, q) = Get(last.before.index, q)

\* C5: after update_file(p, newContent) the Keyword Index maps a token to p
\* only if the token occurs in newContent
C5_UpdateDropsOldKeywords ==
    last.op = "update_file" =>
        \A w \in DOMAIN keywords :
            last.path \in Range(keywords[w]) => w \in TokensOf(last.content)



(***************************************************************************)
(* Properties of the queries                                               *)
(***************************************************************************)

\* the paths of context['relevant_files'], in order
ReturnedPaths == [i \in 1..Len(result.relevant_files) |-> result.relevant_files[i].path]

DirectoryAsked == last.op = "get_relevant_context" /\ IsDirectoryQuery(last.path)

\* the indexed paths that contain the query as it is written
Containing == {p \in Keys(last.files) : Contains(p, last.path)}

\* the indexed paths that contain the query, letter case aside
Matching == {p \in Keys(last.files) : Contains(Lower(p), Lower(last.path))}

Ascending(q) == \A i \in 1..Len(q) : \A j \in 1..Len(q) : i < j => StrLess(q[i], q[j])

\* C8: for a directory-shaped query the files returned to the caller are
\* exactly the indexed files whose path contains the query, in lexicographic
\* path order, none missing and none extra, however many match
C8_DirectoryReturnsExactSet ==
    DirectoryAsked =>
        /\ Range(ReturnedPaths) = Containing
        /\ Ascending(ReturnedPaths)

\* C8, amended: for a directory-shaped query the files returned to the
\* caller are the first ten, in lexicographic path order, of the indexed
\* files whose path contains the query case-insensitively; all of them when
\* at most ten match
C8_DirectoryReturnsFirstTen ==
    DirectoryAsked =>
        /\ Range(ReturnedPaths) \subseteq Matching
        /\ Ascending(ReturnedPaths)
        /\ Len(ReturnedPaths) =
               IF Cardinality(Matching) < max_context_files THEN Cardinality(Matching)
               ELSE max_context_files
        /\ \A p \in Matching \ Range(ReturnedPaths) :
               \A i \in 1..Len(ReturnedPaths) : StrLess(ReturnedPaths[i], p)
        /\ \A i \in 1..Len(ReturnedPaths) :
               result.relevant_files[i] = ContextFile(Get(last.files, ReturnedPaths[i]))

\* a directory query in another letter case than the paths has been answered
\* with ten of the eleven files that match
C8_Witness ==
    /\ DirectoryAsked
    /\ Containing = {}
    /\ Cardinality(Matching) = 11
    /\ Len(ReturnedPaths) = 10

RECURSIVE RatioSum(_, _)
\* the sum of the partial ratios of the query with every text of a list
RatioSum(query_lower, texts) ==
    IF texts = <<>> THEN 0
    ELSE partial_ratio(query_lower, Lower(Head(texts))) + RatioSum(query_lower, Tail(texts))

\* ten times the weighted score of a record: 0.3 file name, 0.4 content,
\* 0.2 every symbol name, 0.1 every comment
TenfoldScore(query_lower, rec) ==
    3 * partial_ratio(query_lower, Lower(PathName(rec.path)))
    + 4 * partial_ratio(query_lower, Lower(rec.content))
    + 2 * RatioSum(query_lower, SymbolNamesOf(rec))
    + RatioSum(query_lower, rec.comments)

C10_FunctionNameRanksFirst ==
    last.op = "semantic_search" =>
        \A i \in 1..Len(last.files) :
            (/\ last.path \in Range(Names(last.files[i].functions))
             /\ \A j \in 1..Len(last.files) :
                    j # i => ~Contains(last.files[j].content, last.path))
            => (result # <<>> /\ result[1] = last.files[i].path)

\* C11: get_relevant_context returns at most 10 relevant files, each with at
\* most 2000 characters of content, and every returned path is a key of the
\* Index the call was made on
C11_ContextBounded ==
    last.op = "get_relevant_context" =>
        /\ Len(result.relevant_files) <= 10
        /\ \A i \in 1..Len(result.relevant_files) :
               /\ Len(result.relevant_files[i].content) <= 2000
               /\ result.relevant_files[i].path \in Keys(last.files)

\* a semantic query has returned a file whose content is longer than 2000
\* characters, cut to its first 2000
C11_Witness ==
    /\ last.op = "get_relevant_context"
    /\ ~IsDirectoryQuery(last.path)
    /\ \E i \in 1..Len(result.relevant_files) :
           /\ Len(Get(last.files, result.relevant_files[i].path).content) > 2000
           /\ result.relevant_files[i].content =
                  SubSeq(Get(last.files, result.relevant_files[i].path).content, 1, 2000)

\* C12: analyze_file of a path that is not a key of the Index returns the
\* error result, raises nothing, and leaves the FileRecords, the Symbol
\* Table and the Dependency Graph as they were (no entry is created for
\* the path)
C12_AbsentPathIsErrorResult ==
    [][\A p \in AnalyzePaths :
           (p \notin Keys(file_index) /\ analyze_file(p)) =>
               /\ result' = not_found
               /\ UNCHANGED <<file_index, symbol_index, dependency_graph>>
               /\ p \notin DOMAIN dependency_graph']_vars

\* analyze_file has been asked for a path that was indexed once and is gone
\* from the Index after a refresh
C12_Witness ==
    /\ last.op = "analyze_file"
    /\ last.path \in ever_indexed
    /\ last.path \notin Keys(last.files)
    /\ synced = "refresh"
    /\ result = not_found

\* C13: the build on a root path that is missing or unreadable raises an
\* error to the caller; it never returns an (empty) Index for such a root
C13_InvalidRootFails ==
    (last.op = "CodebaseAnalyzer" /\ root # "directory") => result.raised # ""

\* the files of tree t that can be read
Readable(t) == [p \in {q \in DOMAIN t : t[q] # ReadError} |-> t[p]]

\* the files the walk selects whose reading or decoding fails
BadFiles == {p \in Range(get_code_files(tree, scan_order)) : tree[p] = ReadError}

\* the Index is the one the last build or refresh left for the tree as it is
Built == synced # "stale" /\ root = "directory"

\* C14: when reading or decoding a selected file fails during the build, the
\* build completes, the file has no FileRecord and no Symbol Table entry,
\* and the FileRecords are exactly those of a build without the bad file
C14_BadFileSkipped ==
    (Built /\ BadFiles # {}) =>
        /\ \A p \in BadFiles :
               /\ p \notin Keys(file_index)
               /\ \A n \in DOMAIN symbol_index : symbol_index[n].file # p
        /\ file_index = build_index(NewAnalyzer, Readable(tree), scan_order).file_index

\* a refresh has met a file that it indexed before and that cannot be read
\* any more, next to a readable file with a symbol
C14_Witness ==
    /\ Built
    /\ synced = "refresh"
    /\ "a.py" \in BadFiles \cap ever_indexed
    /\ "bad.py" \in Keys(file_index)
    /\ "foo" \in DOMAIN symbol_index

\* ast.parse(content) raises
Unparsable(content) ==
    \E i \in 1..Len(Split(content, "\n")) : PyStmt(Split(content, "\n")[i]).kind = "error"

\* the Python files the walk selects that can be read and do not parse
UnparsableFiles ==
    {p \in Range(get_code_files(tree, scan_order)) :
        /\ detect_language(p) = "python"
        /\ tree[p] # ReadError
        /\ Unparsable(tree[p])}

\* C15: a Python file whose content does not parse still gets a FileRecord
\* when the build completes, and the four symbol lists of the record
\* (functions, classes, variables, imports) are empty
C15_UnparsableHasEmptySymbols ==
    Built =>
        \A p \in UnparsableFiles :
            /\ p \in Keys(file_index)
            /\ Get(file_index, p).symbols.functions = <<>>
            /\ Get(file_index, p).symbols.classes = <<>>
            /\ Get(file_index, p).symbols.variables = <<>>
            /\ Get(file_index, p).symbols.imports = <<>>

\* a build has indexed a Python file whose third line does not parse and
\* whose first two lines are an import and a function
C15_Witness ==
    /\ Built
    /\ "a.py" \in UnparsableFiles
    /\ Get(file_index, "a.py").content = "import b\ndef foo():0\ndef ("
    /\ Get(file_index, "a.py").symbols = EmptySymbols

\* a step of SpecContext that is a call of get_relevant_context or of
\* analyze_file: it sets the last call, and it is neither a change of the
\* tree (edits grows) nor a refresh (refreshes grows)
QueryStep ==
    /\ last'.op \in {"get_relevant_context", "analyze_file"}
    /\ edits' = edits
    /\ refreshes' = refreshes

\* C17: get_relevant_context and analyze_file are read-only: every such call
\* leaves the FileRecords, the Symbol Table, the Dependency Graph and the
\* CodingStandards as they were, so any sequence of them does
C17_QueriesReadOnly ==
    [][QueryStep => UNCHANGED <<file_index, symbol_index, dependency_graph, coding_standards>>]_vars

\* analyze_file has been asked for an indexed file that has no entry in the
\* Dependency Graph, on an Index that a refresh rebuilt
C17_Witness ==
    /\ last.op = "analyze_file"
    /\ last.path \in Keys(file_index)
    /\ last.path \notin DOMAIN dependency_graph
    /\ synced = "refresh"
    /\ "file_info" \in DOMAIN result

\* C18: the indentation is "spaces" whenever at least as many lines start
\* with a space as with a tab (ties and no indented line at all included),
\* and "tabs" only when more lines start with a tab
C18_SpacesWinTies ==
    coding_standards.indentation =
        IF CountIf(AllLines(file_index), StartsWithSpace) >= CountIf(AllLines(file_index), StartsWithTab)
        THEN "spaces" ELSE "tabs"

\* sorted(q)[k] for the two middle positions of a list of even length, and
\* twice over for the middle position of a list of odd length
MiddleSum(q) == SortedAt(q, (Len(q) - 1) \div 2) + SortedAt(q, Len(q) \div 2)

\* C19: the line length reported is the median of the lengths of all lines
\* of all indexed files, for an odd and for an even number of lines, and 80
\* when the Index has no lines
C19_LineLengthIsMedian ==
    IF AllLines(file_index) = <<>> THEN coding_standards.line_length = 80
    ELSE 2 * coding_standards.line_length = MiddleSum(Lengths(AllLines(file_index)))

\* the positions of content where a word (a run of letters, digits and
\* underscores) starts
WordStarts(content) ==
    {i \in 1..Len(content) : IsWord(Ch(content, i)) /\ ~IsWord(Ch(content, i - 1))}

RECURSIVE WordStop(_, _)
\* the position where the word that holds position i ends
WordStop(content, i) == IF IsWord(Ch(content, i + 1)) THEN WordStop(content, i + 1) ELSE i

\* the whole words of content that are the given token, in any case
TokenCount(content, token) ==
    Cardinality({i \in WordStarts(content) : Lower(Slice(content, i, WordStop(content, i))) = token})

\* the whole words of content that are decision tokens
DecisionWords(content) ==
    Cardinality({i \in WordStarts(content) :
                    Lower(Slice(content, i, WordStop(content, i)))
                        \in {"if", "else", "for", "while", "and", "or", "case", "catch"}})

\* C20: the cyclomatic score of a file is 1 plus the number of whole words
\* of its content that are, in any case, one of if, else, for, while, and,
\* or, case, catch; with 3 'if' and 2 'for' and no other it is 6
C20_CyclomaticCountsWholeWords ==
    (last.op = "analyze_file" /\ "complexity" \in DOMAIN result) =>
        /\ result.complexity.cyclomatic = 1 + DecisionWords(result.file_info.content)
        /\ (/\ TokenCount(result.file_info.content, "if") = 3
            /\ TokenCount(result.file_info.content, "for") = 2
            /\ DecisionWords(result.file_info.content) = 5) => result.complexity.cyclomatic = 6

\* a file with three 'if' and two 'for' in mixed case has been analyzed, and
\* scored 6
C20_Witness ==
    /\ last.op = "analyze_file"
    /\ "complexity" \in DOMAIN result
    /\ result.file_info.content = "if a\nIF b\niF c\nfor d\nFor e"
    /\ TokenCount(result.file_info.content, "if") = 3
    /\ TokenCount(result.file_info.content, "for") = 2
    /\ result.complexity.cyclomatic = 6

\* the indexes as they are
Indexes == [an |-> Analyzer, se |-> Search]

\* a handler is part of the way through: the indexes are neither as they
\* were when it was called nor as it leaves them
Intermediate ==
    /\ task.op # "idle"
    /\ Indexes # task.before
    /\ Indexes # Last(task.steps)

\* a step of SpecLoop that is a call of get_relevant_context or analyze_file
LoopQueryStep ==
    /\ last'.op \in {"get_relevant_context", "analyze_file"}
    /\ task' = task
    /\ calls' = calls

Edges(f) == IF f \in DOMAIN dependency_graph THEN dependency_graph[f] ELSE {}

\* some import recorded for f ends with, or contains, the stem of g
ImportNames(f, g) ==
    \E k \in 1..Len(Get(file_index, f).imports) :
        \/ EndsWith(Get(file_index, f).imports[k], PathStem(g))
        \/ Contains(Get(file_index, f).imports[k], PathStem(g))

\* C22: the dependency graph has the edge f -> g exactly when g is a
\* FileRecord other than f and an import of f ends with or contains the
\* stem of g; no file has an edge to itself
C22_EdgesAreImportsOfOtherFiles ==
    /\ \A f \in DOMAIN dependency_graph : f \in Keys(file_index) /\ f \notin dependency_graph[f]
    /\ \A f \in Keys(file_index), g \in Keys(file_index) :
           g \in Edges(f) <=> (g # f /\ ImportNames(f, g))

\* the files the symbol table refers to
SymbolFiles == {symbol_index[n].file : n \in DOMAIN symbol_index}

\* the files the dependency graph has edges to
EdgeTargets == UNION {dependency_graph[f] : f \in DOMAIN dependency_graph}

\* C28: after the build and after every refresh, the symbol table and the
\* dependency graph refer only to files of the file set, and every
\* FileRecord is the one record found under its own path
C28_IndexesReferToFileRecords ==
    /\ SymbolFiles \subseteq Keys(file_index)
    /\ DOMAIN dependency_graph \subseteq Keys(file_index)
    /\ EdgeTargets \subseteq Keys(file_index)
    /\ \A i \in 1..Len(file_index) :
           /\ Get(file_index, file_index[i].path) = file_index[i]
           /\ \A j \in 1..Len(file_index) : file_index[j].path = file_index[i].path => j = i

\* a refresh dropped a file that had been indexed and left a symbol table
\* and a graph that refer to the files that remain
C28_Witness ==
    /\ synced = "refresh"
    /\ ever_indexed \ Keys(file_index) # {}
    /\ SymbolFiles # {}
    /\ EdgeTargets # {}

\* a symbol carries a name
HasName(symbol) == "name" \in DOMAIN symbol

\* the named symbols of one type of a FileRecord, in the order of its list
EntriesOf(rec, type) ==
    [i \in 1..Len(SelectSeq(rec.symbols[type], HasName)) |->
        [name |-> SelectSeq(rec.symbols[type], HasName)[i].name,
         file |-> rec.path,
         type |-> type,
         line |-> SelectSeq(rec.symbols[type], HasName)[i].line]]

\* the named symbols of the file set in the order in which the build
\* processes them: file by file, type by type
Processed(fi) ==
    Flatten([i \in 1..Len(fi) |->
                Flatten([k \in 1..Len(SymbolTypes) |-> EntriesOf(fi[i], SymbolTypes[k])])])

\* the table holds, for every name of the list, its last definition
LastWins(si, defs) ==
    /\ DOMAIN si = {defs[i].name : i \in 1..Len(defs)}
    /\ \A i \in 1..Len(defs) :
           (\A j \in (i + 1)..Len(defs) : defs[j].name # defs[i].name)
               => si[defs[i].name] = [file |-> defs[i].file, type |-> defs[i].type, line |-> defs[i].line]

\* the modules the files import
ImportedModules(fi) ==
    UNION {{fi[i].symbols.imports[k].module : k \in 1..Len(fi[i].symbols.imports)} : i \in 1..Len(fi)}

\* C26: after a build and after a refresh the symbol table has one entry
\* for each name that a symbol carries, with the file, kind and line of the
\* definition of that name that was processed last; an import adds no entry
C26_LastDefinitionWins ==
    task.op = "idle" =>
        /\ LastWins(symbol_index, Processed(file_index))
        /\ \A m \in ImportedModules(file_index) :
               m \in DOMAIN symbol_index => \E i \in 1..Len(Processed(file_index)) : Processed(file_index)[i].name = m

\* foo is a function of both files and a variable of src/b.py, which was
\* processed last; a.py imports b; the table was rebuilt by a refresh
C26_Witness ==
    /\ task.op = "idle"
    /\ synced = "refresh"
    /\ Len(file_index) = 2
    /\ file_index[2].path = "src/b.py"
    /\ Len(Processed(file_index)) = 3
    /\ symbol_index["foo"] = [file |-> "src/b.py", type |-> "variables", line |-> 2]
    /\ "b" \in ImportedModules(file_index)
    /\ "b" \notin DOMAIN symbol_index

(***************************************************************************)
(* The order of the semantic search result                                 *)
(***************************************************************************)

\* where the record of path p stands in the file set
PositionOf(fi, p) == CHOOSE i \in 1..Len(fi) : fi[i].path = p

\* the scores of the files of a result, in the order of the result
ResultScores(fi, query, paths) ==
    [i \in 1..Len(paths) |-> file_score(Lower(query), Get(fi, paths[i]))]

\* no file of the result scores less than a later one, and of two files
\* with the same score the one indexed first comes first
OrderedByScore(fi, paths, scores) ==
    \A i \in 1..Len(paths) : \A j \in (i + 1)..Len(paths) :
        /\ ~BigLess(scores[i], scores[j])
        /\ scores[i] = scores[j] => PositionOf(fi, paths[i]) < PositionOf(fi, paths[j])

\* C25: the semantic search result is in the order of non-increasing
\* score, and files with equal scores keep the order of the file set
C25_ResultOrderedByScore ==
    last.op = "semantic_search" =>
        OrderedByScore(last.files, result, ResultScores(last.files, last.path, result))

\* a result of several files with one score, from a file set that is not in
\* the order of the paths
C25_Witness ==
    /\ last.op = "semantic_search"
    /\ Len(result) > 2
    /\ ResultScores(last.files, last.path, result)[1] = ResultScores(last.files, last.path, result)[2]
    /\ KeySeq(last.files) # SortedSeq(Keys(last.files))

(***************************************************************************)
(* Specification of the two modes of get_relevant_context                  *)
(***************************************************************************)

\* the queries of the modes: a path, a path in another letter case, the two
\* words in upper and mixed case next to a text every file of the first
\* tree contains, and that text alone
ModeQueries == {"src/utils", "Src/Utils", "x=1 DIRECTORY", "x=1 Folder", "x=1"}

InitMode == InitOn(QueryTrees)

NextMode ==
    \/ \E w \in QueryWrites : WriteFile(w[1], w[2])
    \/ \E p \in QueryDeletes : DeleteFile(p)
    \/ refresh_index
    \/ \E q \in ModeQueries : get_relevant_context(q)

SpecMode == InitMode /\ [][NextMode]_vars

\* the query contains '/' or, in any letter case, directory or folder
DirectoryShaped(query) ==
    \/ Contains(query, "/")
    \/ Contains(Lower(query), "directory")
    \/ Contains(Lower(query), "folder")

\* C24: get_relevant_context searches by directory exactly when the query
\* contains '/' or the word directory or folder in any letter case, and
\* semantically otherwise; a search by directory returns every indexed
\* file whose path contains the query, letter case aside
C24_DirectoryModeReturnsEveryMatch ==
    last.op = "get_relevant_context" =>
        IF DirectoryShaped(last.path)
        THEN Range(ReturnedPaths) = Matching
        ELSE ReturnedPaths = FirstN(semantic_search(last.files, last.path), max_context_files)

\* C24, amended: the mode is chosen as above; a search by directory returns
\* the first ten, in the order of the paths, of the indexed files whose
\* path contains the query, letter case aside, and all of them when at most
\* ten match
C24_DirectoryModeReturnsFirstTen ==
    last.op = "get_relevant_context" =>
        IF DirectoryShaped(last.path)
        THEN ReturnedPaths = FirstN(SortedSeq(Matching), max_context_files)
        ELSE ReturnedPaths = FirstN(semantic_search(last.files, last.path), max_context_files)

\* a query with the word folder in mixed case, which a semantic search
\* answers with files, has been answered with none: no path contains it
C24_Witness ==
    /\ last.op = "get_relevant_context"
    /\ last.path = "x=1 Folder"
    /\ Len(semantic_search(last.files, last.path)) = 12
    /\ Matching = {}
    /\ ReturnedPaths = <<>>

(***************************************************************************)
(* The three per-file maps of the search index                             *)
(***************************************************************************)

\* the file that is written between the calls, and the keys remove_file is
\* given: the paths of the files and the name update_file records
MapsWrites == {<<"src/b.py", "x=1">>}

MapsKeys == SearchLocs \cup {"b.py"}

InitMaps == InitOn(SearchTrees)

NextMaps ==
    \/ \E w \in MapsWrites : WriteFile(w[1], w[2])
    \/ index_codebase
    \/ \E p \in SearchLocs, c \in LoopContents : update_file(p, c)
    \/ \E p \in MapsKeys : remove_file(p)
    \/ clear_index

SpecMaps == InitMaps /\ [][NextMaps]_vars

\* C29: after any sequence of index_codebase, update_file, remove_file and
\* clear_index calls the maps index, file_contents and symbols have the
\* same keys, and the record of every key holds the content and the symbols
\* the other two maps hold for it
C29_PerFileMapsAgree ==
    /\ Keys(index) = DOMAIN file_contents
    /\ Keys(index) = DOMAIN symbols
    /\ \A p \in Keys(index) :
           /\ Get(index, p).content = file_contents[p]
           /\ Get(index, p).symbols = symbols[p]

\* update_file recorded src/b.py, rewritten since it was indexed, under its
\* name, and remove_file then took the older record of its path out of the
\* three maps
C29_Witness ==
    /\ last.op = "remove_file"
    /\ last.path = "src/b.py"
    /\ Keys(last.before.index) = {"a.py", "src/b.py", "b.py"}
    /\ Get(last.before.index, "b.py").content # Get(last.before.index, "src/b.py").content
    /\ DOMAIN symbols = {"a.py", "b.py"}
    /\ file_contents["b.py"] = "x=1"

(***************************************************************************)
(* Specification of _build_index, statement by statement, on a tree that   *)
(* changes while the build runs                                            *)
(***************************************************************************)

\* a build is running or has returned
BuildRuns == task.op = "build_index"

\* the loop may be left before its list is used up
LoopDoneEarly(t) == t.pc = "loop"

\* for file_path in self._get_code_files(): the list is used up
LoopDone(t) == t.pc = "loop" /\ t.files = <<>>

\* what open() and read() give for a file of the list now: the file may
\* have been deleted since the walk
ReadNow(t, path) == IF path \in DOMAIN t THEN t[path] ELSE ReadError

\* refresh_index is called: the three clear() calls, and _build_index as far
\* as the list of _get_code_files
begin_refresh_index ==
    /\ task = Idle \/ (BuildRuns /\ task.pc = "returned")
    /\ Len(refreshes) < 2
    /\ SetAnalyzer(ClearIndex(Analyzer))
    /\ task' = [op       |-> "build_index",
                pc       |-> "loop",
                files    |-> get_code_files(Listed(root, tree), scan_order),
                selected |-> get_code_files(Listed(root, tree), scan_order),
                done     |-> <<>>]
    /\ last' = Call("refresh_index", "", "")
    /\ result' = <<>>
    /\ UNCHANGED <<tree, scan_order, root, conversation_history, edits, synced, refreshes, ever_indexed, searchVars, calls>>

\* one pass of the loop: self._index_file(file_path)
step_index_file ==
    /\ BuildRuns
    /\ task.pc = "loop"
    /\ task.files # <<>>
    /\ SetAnalyzer(index_file(Analyzer, Head(task.files), ReadNow(tree, Head(task.files))))
    /\ task' = [task EXCEPT !.files = Tail(@), !.done = Append(@, "index_file")]
    /\ UNCHANGED <<tree, scan_order, root, conversation_history, edits, synced, refreshes, ever_indexed, searchVars, callVars>>

\* self._analyze_dependencies()
step_analyze_dependencies ==
    /\ BuildRuns
    /\ LoopDone(task)
    /\ SetAnalyzer([Analyzer EXCEPT !.dependency_graph = analyze_dependencies(file_index, @)])
    /\ task' = [task EXCEPT !.pc = "detect_coding_standards", !.done = Append(@, "analyze_dependencies")]
    /\ UNCHANGED <<tree, scan_order, root, conversation_history, edits, synced, refreshes, ever_indexed, searchVars, callVars>>

\* self._detect_coding_standards(), and the return
step_detect_coding_standards ==
    /\ BuildRuns
    /\ task.pc = "detect_coding_standards"
    /\ SetAnalyzer([Analyzer EXCEPT !.coding_standards = detect_coding_standards(file_index)])
    /\ task' = [task EXCEPT !.pc = "returned", !.done = Append(@, "detect_coding_standards")]
    /\ synced' = "refresh"
    /\ refreshes' = Append(refreshes, [Analyzer EXCEPT !.coding_standards = detect_coding_standards(file_index)])
    /\ ever_indexed' = ever_indexed \cup Keys(file_index)
    /\ UNCHANGED <<tree, scan_order, root, conversation_history, edits, searchVars, callVars>>

InitSteps == InitOn(BuildTrees)

NextSteps ==
    \/ \E w \in BuildWrites : WriteFile(w[1], w[2])
    \/ \E p \in BuildDeletes : DeleteFile(p)
    \/ begin_refresh_index
    \/ step_index_file
    \/ step_analyze_dependencies
    \/ step_detect_coding_standards

SpecSteps == InitSteps /\ [][NextSteps]_vars

\* how often statement s has run in the build
TimesRun(s) == Cardinality({i \in 1..Len(task.done) : task.done[i] = s})

\* the statements that follow the loop
AfterLoop == {"analyze_dependencies", "detect_coding_standards"}

\* neither statement has run twice, each has run when the build returns, and
\* when one of them ran every file of the list had been passed to
\* _index_file, which indexed or skipped it
RunOnceAfterTheFiles ==
    BuildRuns =>
        /\ \A s \in AfterLoop : TimesRun(s) = (IF task.pc = "returned" THEN 1 ELSE TimesRun(s))
        /\ \A s \in AfterLoop : TimesRun(s) <= 1
        /\ \A i \in 1..Len(task.done) :
               task.done[i] \in AfterLoop =>
                   /\ {j \in 1..(i - 1) : task.done[j] = "index_file"} = 1..Len(task.selected)
                   /\ \A j \in (i + 1)..Len(task.done) : task.done[j] # "index_file"

\* a step of the build in which one of the two statements has run before
LateStep ==
    /\ BuildRuns
    /\ task'.op = "build_index"
    /\ Len(task'.done) > Len(task.done)
    /\ Range(task.done) \cap AfterLoop # {}

\* C23: in a build the dependency analysis and the detection of the coding
\* standards run once each, and only after every file of the list has been
\* indexed or skipped; no FileRecord is added once either of them has run
C23_AnalysesRunOnceAfterFiles ==
    /\ []RunOnceAfterTheFiles
    /\ [][LateStep => file_index' = file_index]_vars

\* a build has returned that skipped a file: both statements ran after the
\* three files of the list were passed to _index_file, and two are indexed
C23_Witness ==
    /\ BuildRuns
    /\ task.pc = "returned"
    /\ Len(task.selected) = 3
    /\ task.done = <<"index_file", "index_file", "index_file", "analyze_dependencies", "detect_coding_standards">>
    /\ Len(file_index) = 2

(***************************************************************************)
(* SemanticSearch.search_codebase                                          *)
(***************************************************************************)

\* query_lower.split() for a query whose only whitespace is the space
QueryWords(query_lower) == SelectSeq(Split(query_lower, " "), LAMBDA w : w # "")

\* score += 10 for every query word that self.keywords lists the file under
keyword_bonus == 10

RECURSIVE AddKeywords(_, _, _, _)
AddKeywords(score, words, kw, path) ==
    IF words = <<>> THEN score
    ELSE AddKeywords(
             IF Head(words) \in DOMAIN kw /\ path \in Range(kw[Head(words)])
             THEN FAdd(score, FloatOf(keyword_bonus))
             ELSE score,
             Tail(words), kw, path)

\* the words that open the language test
language_words == <<"python", "py", "js", "javascript", "java", "cpp">>

language_bonus == 20

\* if any(word in query_lower for word in [...]): if file_info['language'] in query_lower
LanguageNamed(query_lower, language) ==
    /\ \E k \in 1..Len(language_words) : Contains(query_lower, language_words[k])
    /\ Contains(query_lower, language)

\* score += 20 when the language test holds
AddLanguage(score, query_lower, language) ==
    IF LanguageNamed(query_lower, language) THEN FAdd(score, FloatOf(language_bonus)) ELSE score

\* the score of one record of the index: file name, content, symbol names,
\* keywords and language, added up in this order
search_score(st, query_lower, rec) ==
    AddLanguage(
        AddKeywords(
            AddRatios(
                AddRatios(
                    AddRatios(Zero, query_lower, <<PathName(rec.path)>>, "0.2"),
                    query_lower, <<rec.content>>, "0.3"),
                query_lower, SymbolNamesOf(rec), "0.2"),
            QueryWords(query_lower), st.keywords, rec.path),
        query_lower, rec.language)

max_length == 200

\* content[start:end] with the dots of _get_content_preview around a match
\* at position pos (from 1)
PreviewAt(content, pos) ==
    (IF pos - 1 - max_length \div 2 > 0 THEN "..." ELSE "")
    \o Slice(content, (IF pos - 1 - max_length \div 2 > 0 THEN pos - max_length \div 2 ELSE 1),
             pos - 1 + max_length \div 2)
    \o (IF pos - 1 + max_length \div 2 < Len(content) THEN "..." ELSE "")

\* SemanticSearch._get_content_preview
get_content_preview(content, query) ==
    IF Find(Lower(content), Lower(query), 1) = 0
    THEN IF Len(content) > max_length THEN Slice(content, 1, max_length) \o "..." ELSE content
    ELSE PreviewAt(content, Find(Lower(content), Lower(query), 1))

search_threshold == 30

\* results.append({...}) for the records from the i-th on that score more
\* than the threshold
RECURSIVE ResultsFrom(_, _, _, _)
ResultsFrom(st, query, i, score) ==
    IF i > Len(st.index) THEN <<>>
    ELSE (IF BigLess(FloatOf(search_threshold), score[i])
          THEN <<[file_path |-> st.index[i].path,
                  score     |-> score[i],
                  language  |-> st.index[i].language,
                  symbols   |-> st.index[i].symbols,
                  preview   |-> get_content_preview(st.index[i].content, query)]>>
          ELSE <<>>)
         \o ResultsFrom(st, query, i + 1, score)

\* the list results of search_codebase after results.sort(...)
search_results(st, query) ==
    SortByScore(ResultsFrom(st, query, 1,
        [i \in 1..Len(st.index) |-> search_score(st, Lower(query), st.index[i])]))

\* SemanticSearch.search_codebase
search_codebase_of(st, query, max_results) == FirstN(search_results(st, query), max_results)

\* the queries of the full-text search and the values of max_results
FullTextQueries == {"foo", "python foo", "py foo", "x"}

ResultLimits == {1, 10}

\* SemanticSearch.search_codebase(query, max_results)
search_codebase(query) ==
    /\ \E results \in {search_results(Search, query)} : \E max_results \in ResultLimits :
           /\ last' = [max_results |-> max_results] @@ Call("search_codebase", query, "")
           /\ result' = FirstN(results, max_results)
    /\ UNCHANGED <<tree, scan_order, root, conversation_history, task, analyzerVars, edits, synced, refreshes, ever_indexed, searchVars, calls>>

InitFullText == InitOn(SearchTrees)

NextFullText ==
    \/ index_codebase
    \/ \E p \in SearchLocs, c \in LoopContents : update_file(p, c)
    \/ \E q \in FullTextQueries : search_codebase(q)

SpecFullText == InitFullText /\ [][NextFullText]_vars

\* a query word names the language: the name itself, py for python, js for
\* javascript
NamesLanguage(word, language) ==
    \/ word = language
    \/ word = "py" /\ language = "python"
    \/ word = "js" /\ language = "javascript"

RECURSIVE AddTens(_, _)
\* score + 10 * n
AddTens(score, n) == IF n = 0 THEN score ELSE AddTens(FAdd(score, FloatOf(10)), n - 1)

\* the score the file of record rec is to have for the words of a query:
\* the similarity of file name, content and symbol names, 10 for each query
\* word the keyword index maps to the file, 20 when a word names its language
RequiredScore(kw, words, query_lower, rec) ==
    FAdd(AddTens(AddRatios(
                     AddRatios(
                         AddRatios(Zero, query_lower, <<PathName(rec.path)>>, "0.2"),
                         query_lower, <<rec.content>>, "0.3"),
                     query_lower, SymbolNamesOf(rec), "0.2"),
                 Cardinality({k \in 1..Len(words) :
                                  words[k] \in DOMAIN kw /\ rec.path \in Range(kw[words[k]])})),
         IF \E k \in 1..Len(words) : NamesLanguage(words[k], rec.language)
         THEN FloatOf(20) ELSE Zero)

\* the records of the index that are to be returned
Qualifying(st, query_lower) ==
    {i \in 1..Len(st.index) :
        BigLess(FloatOf(30),
                RequiredScore(st.keywords, QueryWords(query_lower), query_lower, st.index[i]))}

\* C27: the full-text search gives a file 10 for each query word the
\* keyword index maps to it and 20 exactly when a query word names its
\* language, py and js included; it returns the files that score more than
\* 30, greatest score first, and no more than max_results of them
C27_KeywordAndLanguageBonus ==
    last.op = "search_codebase" =>
        /\ \A i \in 1..Len(result) :
               result[i].score = RequiredScore(last.before.keywords, QueryWords(Lower(last.path)),
                                               Lower(last.path), Get(last.before.index, result[i].file_path))
        /\ \A i \in 1..Len(result) : \A j \in (i + 1)..Len(result) :
               ~BigLess(result[i].score, result[j].score)
        /\ Len(result) = IF Cardinality(Qualifying(last.before, Lower(last.path))) < last.max_results
                         THEN Cardinality(Qualifying(last.before, Lower(last.path)))
                         ELSE last.max_results

(***************************************************************************)
(* AIAgent: the conversation history                                       *)
(***************************************************************************)

\* the messages the user sends and the texts the model generates
Messages == {"hi", "fix it"}

Responses == {"ok"}

\* what await self.model_provider.generate(full_prompt) does: it returns a
\* text or raises
Outcomes == [raised : {FALSE}, response : Responses] \cup {[raised |-> TRUE, response |-> ""]}

max_history == 20

\* history[-n:]
LastN(q, n) == IF Len(q) > n THEN SubSeq(q, Len(q) - n + 1, Len(q)) ELSE q

\* the two append calls of chat and the cut to the last 20 entries
Appended(history, message, response) ==
    LastN(history \o <<[role |-> "user", content |-> message],
                       [role |-> "assistant", content |-> response]>>,
          max_history)

\* chat that appends the user's message before it awaits the model
chat_user_first(history, message, outcome) ==
    IF outcome.raised THEN LastN(Append(history, [role |-> "user", content |-> message]), max_history)
    ELSE Appended(history, message, outcome.response)

\* AIAgent.chat from the return of generate on: the history it leaves
chat_effect(history, message, outcome) ==
    IF outcome.raised THEN history
    ELSE Appended(history, message, outcome.response)

\* AIAgent.chat(message) as far as the await: the prompt is built from the
\* history and the model is asked
chat_call(message) ==
    /\ task = Idle
    /\ task' = [op |-> "chat", steps |-> <<>>, message |-> message, history |-> conversation_history]
    /\ last' = Call("chat", message, "")
    /\ result' = <<>>
    /\ UNCHANGED <<tree, scan_order, root, conversation_history, analyzerVars, edits, synced, refreshes, ever_indexed, searchVars, calls>>

\* generate returns or raises and chat runs to its end
chat_resume(outcome) ==
    /\ task.op = "chat"
    /\ conversation_history' = chat_effect(conversation_history, task.message, outcome)
    /\ task' = Idle
    /\ last' = [history |-> task.history] @@ Call("chat", task.message, "")
    /\ result' = IF outcome.raised THEN [raised |-> "Exception"] ELSE [returned |-> outcome.response]
    /\ UNCHANGED <<tree, scan_order, root, analyzerVars, edits, synced, refreshes, ever_indexed, searchVars, calls>>

\* AIAgent.clear_history(), a plain method that any task of the loop may
\* call, also while a chat awaits the model
clear_history ==
    /\ conversation_history' = <<>>
    /\ last' = Call("clear_history", "", "")
    /\ result' = <<>>
    /\ UNCHANGED <<tree, scan_order, root, task, analyzerVars, edits, synced, refreshes, ever_indexed, searchVars, calls>>

InitChat == InitOn(SearchTrees)

NextChat ==
    \/ \E m \in Messages : chat_call(m)
    \/ \E o \in Outcomes : chat_resume(o)
    \/ clear_history

SpecChat == InitChat /\ [][NextChat]_vars

\* the entries alternate user, assistant from the first on
Alternates(history) ==
    \A i \in 1..Len(history) :
        history[i].role = (IF i % 2 = 1 THEN "user" ELSE "assistant")

\* a chat ends because the model raised
RaisedStep == task.op = "chat" /\ task' = Idle /\ "raised" \in DOMAIN result'

\* C30: after any sequence of chat and clear_history calls the history has
\* an even length of at most 20 and alternates user, assistant, starting
\* with user; a chat whose generation raises leaves the history as it was
C30_HistoryAlternates ==
    /\ [](/\ Len(conversation_history) % 2 = 0
          /\ Len(conversation_history) <= 20
          /\ Alternates(conversation_history))
    /\ [][RaisedStep => conversation_history' = conversation_history]_vars

\* a chat that was called with twenty entries in the history has returned,
\* and the history was cut to the last twenty
C30_Witness ==
    /\ Len(conversation_history) = 20
    /\ conversation_history[1].content = "fix it"
    /\ conversation_history[19].content = "hi"
    /\ last.op = "chat"
    /\ task = Idle
    /\ "returned" \in DOMAIN result
    /\ Len(last.history) = 20

(***************************************************************************)
(* The symbol extractor on source files of the supported languages         *)
(*                                                                         *)
(* A source is a sequence of one-line items: a definition of a function    *)
(* or of a class, or a statement that defines neither.  Item i is line i   *)
(* of the file, so the definitions of a source and the lines on which      *)
(* they start are known by construction.                                   *)
(***************************************************************************)

MaxItems == 2

Item(text, kind, name) == [text |-> text, kind |-> kind, name |-> name]

\* the items a source of each language is made of
SourceItems ==
    [python     |-> {Item("def foo():0", "functions", "foo"), Item("class A:0", "classes", "A"),
                     Item("x=1", "other", ""), Item("if x:pass", "other", "")},
     javascript |-> {Item("function f(a) { return a }", "functions", "f"),
                     Item("const g = (a) => a", "functions", "g"),
                     Item("class A { }", "classes", "A"),
                     Item("if (a) { f(a) }", "other", ""),
                     Item("import a from 'b'", "other", "")},
     java       |-> {Item("void f() { }", "functions", "f"),
                     Item("public static int g(int a) { return a; }", "functions", "g"),
                     Item("int x = 1;", "other", "")}]

\* what a source starts and ends with: the members of a Java file are in a class
SourceHead ==
    [python |-> <<>>, javascript |-> <<>>, java |-> <<Item("class A {", "classes", "A")>>]

SourceFoot ==
    [python |-> <<>>, javascript |-> <<>>, java |-> <<Item("}", "other", "")>>]

\* the file names a source of each language is stored under
SourcePaths ==
    [python |-> {"a.py"}, javascript |-> {"a.js", "a.jsx", "a.ts", "a.tsx"}, java |-> {"A.java"}]

\* the sources of a language: up to MaxItems different items in any order
Sources(language) ==
    {SourceHead[language] \o body \o SourceFoot[language] :
        body \in {q \in UNION {[1..n -> SourceItems[language]] : n \in 0..MaxItems} :
                     \A i, j \in DOMAIN q : q[i] = q[j] => i = j}}

RECURSIVE SourceText(_)
\* the file of a source: its items, one on each line
SourceText(items) ==
    IF items = <<>> THEN ""
    ELSE IF Len(items) = 1 THEN items[1].text
    ELSE items[1].text \o "\n" \o SourceText(Tail(items))

\* the definitions of a kind in a source, each with the line it starts on
Defined(items, kind) == {<<items[i].name, i>> : i \in {j \in DOMAIN items : items[j].kind = kind}}

\* the names and lines of a list of symbols
NamedLines(list) == {<<list[i].name, list[i].line>> : i \in DOMAIN list}

\* a call of one of the extractor's methods on a source, and what it returns
Extracted(op, items, path, res) ==
    /\ last' = [items |-> items] @@ Call(op, path, SourceText(items))
    /\ result' = res
    /\ UNCHANGED <<tree, scan_order, root, conversation_history, task, analyzerVars, searchVars,
                   edits, calls, synced, refreshes, ever_indexed>>

\* CodebaseAnalyzer._extract_symbols(content, file_path)
extract_symbols_call(items, path) ==
    Extracted("_extract_symbols", items, path, extract_symbols(SourceText(items), path))

\* CodebaseAnalyzer._extract_functions(content, file_path)
extract_functions_call(items, path) ==
    Extracted("_extract_functions", items, path, extract_functions(SourceText(items), path))

\* CodebaseAnalyzer._extract_classes(content, file_path)
extract_classes_call(items, path) ==
    Extracted("_extract_classes", items, path, extract_classes(SourceText(items), path))

InitSymbols == InitOn(SearchTrees)

NextSymbols ==
    \E language \in DOMAIN SourceItems : \E items \in Sources(language) :
        \E path \in SourcePaths[language] :
            \/ extract_symbols_call(items, path)
            \/ extract_functions_call(items, path)
            \/ extract_classes_call(items, path)

SpecSymbols == InitSymbols /\ [][NextSymbols]_vars

\* C21: the extractor, given a source file of Python, JavaScript/TypeScript
\* or Java, returns as functions and as classes exactly the functions and
\* the classes the source defines, each with the 1-based number of the line
\* its definition starts on
C21_SymbolsAreTheDefinitions ==
    last.op = "_extract_symbols" =>
        /\ NamedLines(result.functions) = Defined(last.items, "functions")
        /\ NamedLines(result.classes) = Defined(last.items, "classes")
====
